---- MODULE Spec2Model ----
(***************************************************************************)
(* helm-upgrade-preview: the manifest analysis pipeline.                   *)
(*                                                                         *)
(* Manifest parsing and resource pairing (parser/manifest.py), noise       *)
(* filtering and normalization (diff/filters.py), semantic equality        *)
(* (diff/semantic.py), the structural diff (diff/engine.py), the risk      *)
(* rules (analysis/risk.py), ownership detection (analysis/ownership.py),  *)
(* the server-side dry run (core/runner.py, core/kubectl.py) and the diff  *)
(* command that chains them (cli.py).                                      *)
(*                                                                         *)
(* YAML values are tagged records [t, v]:                                  *)
(*   "null", "bool", "int", "float", "str", "list", "map".                 *)
(* A float is a normalised decimal <<m, e>> = m * 10^(-e); a mapping is    *)
(* the sequence of its entries [k, v] in insertion order (Python dicts     *)
(* keep insertion order); strings are TLA+ strings read character by       *)
(* character with SubSeq.                                                  *)
(***************************************************************************)
EXTENDS Integers, Sequences, FiniteSets, TLC

VARIABLES
    pc,                 \* position of the run being modelled
    live_resources,     \* cli.diff: resources of the deployed snapshot
    upgrade_resources,  \* cli.diff: resources of the proposed snapshot
    pairs,              \* cli.diff: result of pair_resources
    change_records,     \* cli.diff: result of diff_all
    risk_results,       \* cli.diff: result of assess_risk
    total_unchanged,    \* cli.diff: the unchanged count
    val_a, val_b,       \* is_semantically_equal: the two arguments
    eq_ab, eq_ba,       \* is_semantically_equal(a, b) and (b, a)
    path_segs,          \* the keys and indices leading to a changed node
    dd_path,            \* the path string DeepDiff renders for path_segs
    dot_path,           \* _deepdiff_path_to_dot(dd_path)
    body_in,            \* normalize_body: the argument
    norm_once,          \* normalize_body(body_in)
    norm_twice,         \* normalize_body(normalize_body(body_in))
    diff_pair,          \* compute_diff: the ResourcePair argument
    diff_leaf,          \* the leaf path at which the pair's bodies differ
    diff_record,        \* compute_diff: the returned ChangeRecord or None
    risk_change,        \* assess_risk: the ChangeRecord under assessment
    risk_annotations,   \* assess_risk: the annotations attached to it
    own_resource,       \* detect_ownership: the Resource argument
    own_info,           \* detect_ownership: the outcome of the call
    yaml_text,          \* parse_multi_doc: the text argument, line by line
    parse_result,       \* parse_multi_doc: the outcome of the call
    apply_resources,    \* _apply_server_side: the resources argument
    apply_outcomes,     \* what the dry-run invocation does for each resource
    apply_results,      \* _apply_server_side: the results list so far
    apply_raised,       \* the exception that left _apply_server_side, or ""
    heap,               \* the mapping objects of a call, by object identity
    heap_before         \* heap when the caller built its arguments

vars == <<pc, live_resources, upgrade_resources, pairs, change_records,
          risk_results, total_unchanged, val_a, val_b, eq_ab, eq_ba,
          path_segs, dd_path, dot_path, body_in, norm_once, norm_twice,
          diff_pair, diff_leaf, diff_record, risk_change, risk_annotations,
          own_resource, own_info, yaml_text, parse_result, apply_resources,
          apply_outcomes, apply_results, apply_raised, heap, heap_before>>

pipeline_vars == <<live_resources, upgrade_resources, pairs, change_records,
                   risk_results, total_unchanged>>
sem_vars == <<val_a, val_b, eq_ab, eq_ba>>
path_vars == <<path_segs, dd_path, dot_path>>
norm_vars == <<body_in, norm_once, norm_twice>>
diff_vars == <<diff_pair, diff_leaf, diff_record>>
risk_vars == <<risk_change, risk_annotations>>
own_vars == <<own_resource, own_info>>
parse_vars == <<yaml_text, parse_result>>
apply_vars == <<apply_resources, apply_outcomes, apply_results, apply_raised>>
frame_vars == <<heap, heap_before>>

-----------------------------------------------------------------------------
(* Strings (Python str)                                                    *)

CharAt(s, i) == SubSeq(s, i, i)

\* The printable ASCII characters in code-point order (a tab stands at the
\* place of the backquote, which a TLA+ string cannot hold).
Ascii == " !\"#$%&'()*+,-./0123456789:;<=>?@ABCDEFGHIJKLMNOPQRSTUVWXYZ[\\]^_\tabcdefghijklmnopqrstuvwxyz{|}~"

\* the place of each character in Ascii
AsciiOrd ==
    [c \in {CharAt(Ascii, i) : i \in 1..Len(Ascii)} |->
        CHOOSE i \in 1..Len(Ascii) : CharAt(Ascii, i) = c]

Ord(c) == AsciiOrd[c]

IsDigit(c) == c \in {"0", "1", "2", "3", "4", "5", "6", "7", "8", "9"}

DigitVal(c) == CHOOSE d \in 0..9 : CharAt("0123456789", d + 1) = c

\* the lower-case letter of each upper-case letter
LowerOf ==
    [A |-> "a", B |-> "b", C |-> "c", D |-> "d", E |-> "e", F |-> "f",
     G |-> "g", H |-> "h", I |-> "i", J |-> "j", K |-> "k", L |-> "l",
     M |-> "m", N |-> "n", O |-> "o", P |-> "p", Q |-> "q", R |-> "r",
     S |-> "s", T |-> "t", U |-> "u", V |-> "v", W |-> "w", X |-> "x",
     Y |-> "y", Z |-> "z"]

IsUpper(c) == c \in DOMAIN LowerOf

\* str.lower()
RECURSIVE Lower(_)
Lower(s) ==
    IF s = "" THEN ""
    ELSE LET c == CharAt(s, 1)
         IN (IF IsUpper(c) THEN LowerOf[c] ELSE c)
                \o Lower(SubSeq(s, 2, Len(s)))

\* str.startswith(p)
StartsWith(s, p) == Len(p) <= Len(s) /\ SubSeq(s, 1, Len(p)) = p

\* sub in s
Contains(s, sub) ==
    \E i \in 1..(Len(s) - Len(sub) + 1) : SubSeq(s, i, i + Len(sub) - 1) = sub

\* s.index(c, from) as a 1-based position; 0 when c does not occur
Find(s, c, from) ==
    IF \E i \in from..Len(s) : CharAt(s, i) = c
    THEN CHOOSE i \in from..Len(s) :
            /\ CharAt(s, i) = c
            /\ \A j \in from..(i - 1) : CharAt(s, j) # c
    ELSE 0

\* s.index(sub) for a substring, 1-based; 0 when absent
FindSub(s, sub) ==
    IF Contains(s, sub)
    THEN CHOOSE i \in 1..(Len(s) - Len(sub) + 1) :
            /\ SubSeq(s, i, i + Len(sub) - 1) = sub
            /\ \A j \in 1..(i - 1) : SubSeq(s, j, j + Len(sub) - 1) # sub
    ELSE 0

\* s.replace(old, "", 1)
RemoveFirst(s, old) ==
    LET i == FindSub(s, old)
    IN IF i = 0 THEN s
       ELSE SubSeq(s, 1, i - 1) \o SubSeq(s, i + Len(old), Len(s))

\* s.strip(chars)
RECURSIVE LStrip(_, _)
LStrip(s, chars) ==
    IF s # "" /\ CharAt(s, 1) \in chars
    THEN LStrip(SubSeq(s, 2, Len(s)), chars) ELSE s

RECURSIVE RStrip(_, _)
RStrip(s, chars) ==
    IF s # "" /\ CharAt(s, Len(s)) \in chars
    THEN RStrip(SubSeq(s, 1, Len(s) - 1), chars) ELSE s

Strip(s, chars) == RStrip(LStrip(s, chars), chars)

\* a < b on str (lexicographic by code point)
RECURSIVE StrLess(_, _)
StrLess(a, b) ==
    IF b = "" THEN FALSE
    ELSE IF a = "" THEN TRUE
    ELSE IF CharAt(a, 1) = CharAt(b, 1)
         THEN StrLess(SubSeq(a, 2, Len(a)), SubSeq(b, 2, Len(b)))
         ELSE Ord(CharAt(a, 1)) < Ord(CharAt(b, 1))

\* str(i) for a non-negative int
RECURSIVE IntToStr(_)
IntToStr(n) ==
    IF n < 10 THEN CharAt("0123456789", n + 1)
    ELSE IntToStr(n \div 10) \o CharAt("0123456789", (n % 10) + 1)

-----------------------------------------------------------------------------
(* Values (what yaml.safe_load returns)                                    *)

Null == [t |-> "null", v |-> 0]
VBool(b) == [t |-> "bool", v |-> b]
VInt(n) == [t |-> "int", v |-> n]
VStr(s) == [t |-> "str", v |-> s]
VList(items) == [t |-> "list", v |-> items]
VMap(entries) == [t |-> "map", v |-> entries]
E(k, val) == [k |-> k, v |-> val]

\* decimals m * 10^(-e), trailing zeros removed
RECURSIVE Dec(_, _)
Dec(m, e) == IF e > 0 /\ m % 10 = 0 THEN Dec(m \div 10, e - 1) ELSE <<m, e>>

VFloat(m, e) == [t |-> "float", v |-> Dec(m, e)]

IsScalar(x) == x.t \in {"null", "bool", "int", "float", "str"}

Keys(m) == {m.v[i].k : i \in 1..Len(m.v)}
HasKey(m, k) == k \in Keys(m)
\* m[k] for a key that is present
Get(m, k) == m.v[CHOOSE i \in 1..Len(m.v) : m.v[i].k = k].v
\* m.get(k): None for an absent key
GetOrNull(m, k) == IF HasKey(m, k) THEN Get(m, k) ELSE Null

\* the number a Python int, float or bool stands for in a comparison
NumOf(x) ==
    CASE x.t = "int" -> <<x.v, 0>>
      [] x.t = "float" -> x.v
      [] x.t = "bool" -> IF x.v THEN <<1, 0>> ELSE <<0, 0>>

IsNumLike(x) == x.t \in {"int", "float", "bool"}

RECURSIVE Pow10(_)
Pow10(n) == IF n = 0 THEN 1 ELSE 10 * Pow10(n - 1)

NumLess(p, q) == p[1] * Pow10(q[2]) < q[1] * Pow10(p[2])

\* a == b in Python: numbers and booleans compare by value, mappings
\* regardless of key order, lists element by element
RECURSIVE PyEq(_, _)
PyEq(a, b) ==
    CASE IsNumLike(a) /\ IsNumLike(b) -> NumOf(a) = NumOf(b)
      [] a.t = "null" /\ b.t = "null" -> TRUE
      [] a.t = "str" /\ b.t = "str" -> a.v = b.v
      [] a.t = "list" /\ b.t = "list" ->
            /\ Len(a.v) = Len(b.v)
            /\ \A i \in 1..Len(a.v) : PyEq(a.v[i], b.v[i])
      [] a.t = "map" /\ b.t = "map" ->
            /\ Keys(a) = Keys(b)
            /\ \A k \in Keys(a) : PyEq(Get(a, k), Get(b, k))
      [] OTHER -> FALSE

-----------------------------------------------------------------------------
(* diff/semantic.py                                                        *)

NoNumber == [some |-> FALSE, n |-> <<0, 0>>]
SomeNumber(n) == [some |-> TRUE, n |-> n]

AllDigits(s) == \A i \in 1..Len(s) : IsDigit(CharAt(s, i))

RECURSIVE DigitsVal(_)
DigitsVal(s) ==
    IF s = "" THEN 0
    ELSE 10 * DigitsVal(SubSeq(s, 1, Len(s) - 1)) + DigitVal(CharAt(s, Len(s)))

\* The text of a numeric literal without surrounding blanks and sign.
Unsigned(s) ==
    LET u == Strip(s, {" "})
    IN IF u # "" /\ CharAt(u, 1) \in {"+", "-"} THEN SubSeq(u, 2, Len(u)) ELSE u

Sign(s) ==
    LET u == Strip(s, {" "})
    IN IF u # "" /\ CharAt(u, 1) = "-" THEN -1 ELSE 1

\* int(s): blanks around, an optional sign, decimal digits.  (Underscore
\* digit separators are left out; no string of the model holds one.)
ParseInt(s) ==
    LET d == Unsigned(s)
    IN IF d # "" /\ AllDigits(d)
       THEN SomeNumber(<<Sign(s) * DigitsVal(d), 0>>)
       ELSE NoNumber

\* float(s): blanks around, an optional sign, digits with at most one
\* decimal point and at least one digit.  (Exponents, inf and nan are left
\* out; no string of the model holds one.)
ParseFloat(s) ==
    LET d == Unsigned(s)
        dot == Find(d, ".", 1)
        whole == IF dot = 0 THEN d ELSE SubSeq(d, 1, dot - 1)
        frac == IF dot = 0 THEN "" ELSE SubSeq(d, dot + 1, Len(d))
    IN IF AllDigits(whole) /\ AllDigits(frac) /\ Len(whole) + Len(frac) > 0
       THEN SomeNumber(Dec(Sign(s) * DigitsVal(whole \o frac), Len(frac)))
       ELSE NoNumber

_coerce_numeric(val) ==
    CASE val.t \in {"int", "float"} -> SomeNumber(NumOf(val))
      [] val.t = "str" ->
            IF ParseInt(val.v).some THEN ParseInt(val.v) ELSE ParseFloat(val.v)
      [] OTHER -> NoNumber

\* the keys of _BOOL_MAP that map to True, and those that map to False
_BOOL_MAP_true == {"true", "yes"}
_BOOL_MAP_false == {"false", "no"}

\* "none", or "true" / "false" for the boolean found
_coerce_bool(val) ==
    CASE val.t = "bool" -> IF val.v THEN "true" ELSE "false"
      [] val.t = "str" ->
            IF Lower(val.v) \in _BOOL_MAP_true THEN "true"
            ELSE IF Lower(val.v) \in _BOOL_MAP_false THEN "false"
            ELSE "none"
      [] OTHER -> "none"

\* the keys a mapping comparison walks when it ignores b's own keys
all_keys_of_a_only(a, b) == Keys(a)

\* all_keys = set(a.keys()) | set(b.keys())
all_keys(a, b) == Keys(a) \cup Keys(b)

RECURSIVE _deep_semantic_equal(_, _)
_deep_semantic_equal(a, b) ==
    IF PyEq(a, b) THEN TRUE
    ELSE IF a.t = "null" /\ b.t = "null" THEN TRUE
    ELSE IF _coerce_numeric(a).some /\ _coerce_numeric(b).some
    THEN _coerce_numeric(a).n = _coerce_numeric(b).n
    ELSE IF _coerce_bool(a) # "none" /\ _coerce_bool(b) # "none"
    THEN _coerce_bool(a) = _coerce_bool(b)
    ELSE IF a.t = "map" /\ b.t = "map"
    THEN \A key \in all_keys(a, b) :
            _deep_semantic_equal(GetOrNull(a, key), GetOrNull(b, key))
    ELSE IF a.t = "list" /\ b.t = "list"
    THEN /\ Len(a.v) = Len(b.v)
         /\ \A i \in 1..Len(a.v) : _deep_semantic_equal(a.v[i], b.v[i])
    ELSE FALSE

is_semantically_equal(old, new) == _deep_semantic_equal(old, new)

-----------------------------------------------------------------------------
(* config.py                                                               *)

\* NOISE_PATHS (a set; removals commute, so the order here is immaterial)
NOISE_PATHS ==
    <<"metadata.creationTimestamp",
      "metadata.resourceVersion",
      "metadata.uid",
      "metadata.generation",
      "metadata.managedFields",
      "metadata.annotations.meta\\.helm\\.sh/*",
      "metadata.annotations.kubectl\\.kubernetes\\.io/last-applied-configuration",
      "metadata.labels.helm\\.sh/chart",
      "status">>

\* IMMUTABLE_FIELDS.get(kind_lower, [])
IMMUTABLE_FIELDS(kind_lower) ==
    CASE kind_lower = "deployment" -> <<"spec.selector.matchLabels">>
      [] kind_lower = "service" -> <<"spec.clusterIP">>
      [] kind_lower = "persistentvolumeclaim" -> <<"spec.storageClassName">>
      [] kind_lower = "job" -> <<"spec.selector">>
      [] kind_lower = "statefulset" -> <<"spec.volumeClaimTemplates">>
      [] OTHER -> <<>>

\* UNORDERED_LIST_SORT_KEYS.items(), in declaration order
UNORDERED_LIST_SORT_KEYS ==
    <<<<"spec.template.spec.containers.*.env", "name">>,
      <<"spec.template.spec.containers.*.ports", "containerPort">>,
      <<"spec.template.spec.containers.*.volumeMounts", "mountPath">>,
      <<"spec.template.spec.volumes", "name">>,
      <<"spec.template.spec.initContainers.*.env", "name">>,
      <<"spec.template.spec.initContainers.*.ports", "containerPort">>,
      <<"spec.ports", "port">>>>

-----------------------------------------------------------------------------
(* diff/filters.py                                                         *)

\* str.split(".")
RECURSIVE SplitDots(_)
SplitDots(s) ==
    LET i == Find(s, ".", 1)
    IN IF i = 0 THEN <<s>>
       ELSE <<SubSeq(s, 1, i - 1)>> \o SplitDots(SubSeq(s, i + 1, Len(s)))

\* re.split(r'(?<!\\)\.', path): the first dot at or after position from
\* that no backslash precedes; 0 when there is none
RECURSIVE UnescapedDot(_, _)
UnescapedDot(s, from) ==
    LET i == Find(s, ".", from)
    IN IF i = 0 THEN 0
       ELSE IF i > 1 /\ CharAt(s, i - 1) = "\\" THEN UnescapedDot(s, i + 1)
       ELSE i

RECURSIVE SplitUnescapedDots(_)
SplitUnescapedDots(s) ==
    LET i == UnescapedDot(s, 1)
    IN IF i = 0 THEN <<s>>
       ELSE <<SubSeq(s, 1, i - 1)>>
                \o SplitUnescapedDots(SubSeq(s, i + 1, Len(s)))

\* p.replace('\\.', '.')
RECURSIVE UnescapeDots(_)
UnescapeDots(p) ==
    LET i == FindSub(p, "\\.")
    IN IF i = 0 THEN p
       ELSE SubSeq(p, 1, i - 1) \o "." \o UnescapeDots(SubSeq(p, i + 2, Len(p)))

_split_dot_path(path) ==
    LET parts == SplitUnescapedDots(path)
    IN [i \in 1..Len(parts) |-> UnescapeDots(parts[i])]

\* fnmatch.fnmatch(name, pat) for patterns of literal characters, * and ?
\* (bracket classes are left out; no pattern of the model holds one)
RECURSIVE FnMatch(_, _)
FnMatch(name, pat) ==
    IF pat = "" THEN name = ""
    ELSE LET p == CharAt(pat, 1)
             rest == SubSeq(pat, 2, Len(pat))
         IN IF p = "*"
            THEN \E i \in 0..Len(name) :
                    FnMatch(SubSeq(name, i + 1, Len(name)), rest)
            ELSE /\ name # ""
                 /\ (p = "?" \/ p = CharAt(name, 1))
                 /\ FnMatch(SubSeq(name, 2, Len(name)), rest)

IsGlob(key) == Contains(key, "*") \/ Contains(key, "?") \/ Contains(key, "[")

\* the entries of a mapping that satisfy keep, in their order
RECURSIVE FilterEntries(_, _)
FilterEntries(entries, dropped) ==
    IF entries = <<>> THEN <<>>
    ELSE (IF entries[1].k \in dropped THEN <<>> ELSE <<entries[1]>>)
            \o FilterEntries(Tail(entries), dropped)

\* obj with obj[key] replaced by val (key present)
SetKey(obj, key, val) ==
    VMap([i \in 1..Len(obj.v) |->
            IF obj.v[i].k = key THEN E(key, val) ELSE obj.v[i]])

\* _remove_path_parts edits obj in place; here it returns the edited obj
RECURSIVE _remove_path_parts(_, _)
_remove_path_parts(obj, parts) ==
    IF parts = <<>> \/ obj.t # "map" THEN obj
    ELSE LET key == parts[1]
             remaining == Tail(parts)
         IN IF remaining = <<>>
            THEN IF IsGlob(key)
                 THEN VMap(FilterEntries(obj.v,
                                {k \in Keys(obj) : FnMatch(k, key)}))
                 ELSE VMap(FilterEntries(obj.v, {key}))
            ELSE IF HasKey(obj, key) /\ Get(obj, key).t = "map"
                 THEN SetKey(obj, key,
                             _remove_path_parts(Get(obj, key), remaining))
                 ELSE obj

_remove_path(obj, path) == _remove_path_parts(obj, _split_dot_path(path))

RECURSIVE RemovePaths(_, _)
RemovePaths(obj, paths) ==
    IF paths = <<>> THEN obj
    ELSE RemovePaths(_remove_path(obj, paths[1]), Tail(paths))

\* strip_noise works on a deep copy and returns it
strip_noise(body, extra_ignores) ==
    RemovePaths(body, NOISE_PATHS \o extra_ignores)

\* sorted(obj.items()): entries by key, keys being distinct strings
RECURSIVE SortEntries(_)
SortEntries(entries) ==
    IF entries = <<>> THEN <<>>
    ELSE LET m == CHOOSE i \in 1..Len(entries) :
                    \A j \in 1..Len(entries) :
                        j = i \/ StrLess(entries[i].k, entries[j].k)
             rest == [j \in 1..(Len(entries) - 1) |->
                        IF j < m THEN entries[j] ELSE entries[j + 1]]
         IN <<entries[m]>> \o SortEntries(rest)

RECURSIVE _sort_keys_recursive(_)
_sort_keys_recursive(obj) ==
    IF obj.t = "map"
    THEN LET sorted == SortEntries(obj.v)
         IN VMap([i \in 1..Len(sorted) |->
                    E(sorted[i].k, _sort_keys_recursive(sorted[i].v))])
    ELSE IF obj.t = "list"
    THEN VList([i \in 1..Len(obj.v) |-> _sort_keys_recursive(obj.v[i])])
    ELSE obj

\* key=lambda item: item.get(sort_key, "") if isinstance(item, dict) else ""
SortKeyOf(item, sort_key) ==
    IF item.t = "map" /\ HasKey(item, sort_key)
    THEN Get(item, sort_key) ELSE VStr("")

\* x < y where Python defines it for the two values
KeyLess(x, y) ==
    IF x.t = "str" THEN StrLess(x.v, y.v) ELSE NumLess(NumOf(x), NumOf(y))

\* sorted() raises TypeError when it has to order two keys that Python
\* cannot order: with two or more items, unless all keys are strings or all
\* are numbers.  (Keys that are lists are counted as unorderable.)
SortRaises(items, sort_key) ==
    /\ Len(items) >= 2
    /\ ~ \/ \A i \in 1..Len(items) : SortKeyOf(items[i], sort_key).t = "str"
         \/ \A i \in 1..Len(items) : IsNumLike(SortKeyOf(items[i], sort_key))

\* an insertion that puts item before the elements whose key is not smaller
InsertBeforeEqual(done, item, sort_key) ==
    LET k == SortKeyOf(item, sort_key)
        after == {j \in 1..Len(done) : ~KeyLess(SortKeyOf(done[j], sort_key), k)}
        pos == IF after = {} THEN Len(done) + 1
               ELSE CHOOSE j \in after : \A h \in after : j <= h
    IN SubSeq(done, 1, pos - 1) \o <<item>> \o SubSeq(done, pos, Len(done))

\* sorted() is stable: item goes after every element whose key is not greater
InsertStable(done, item, sort_key) ==
    LET k == SortKeyOf(item, sort_key)
        after == {j \in 1..Len(done) : KeyLess(k, SortKeyOf(done[j], sort_key))}
        pos == IF after = {} THEN Len(done) + 1
               ELSE CHOOSE j \in after : \A h \in after : j <= h
    IN SubSeq(done, 1, pos - 1) \o <<item>> \o SubSeq(done, pos, Len(done))

RECURSIVE SortedBy(_, _)
SortedBy(items, sort_key) ==
    IF items = <<>> THEN <<>>
    ELSE InsertStable(SortedBy(SubSeq(items, 1, Len(items) - 1), sort_key),
                      items[Len(items)], sort_key)

\* the try/except around sorted(): the list stays as it is on TypeError
SortTargetList(list, sort_key) ==
    IF SortRaises(list.v, sort_key) THEN list
    ELSE VList(SortedBy(list.v, sort_key))

\* _sort_list_at_path edits obj in place; here it returns the edited obj
RECURSIVE _sort_list_at_path(_, _, _)
_sort_list_at_path(obj, parts, sort_key) ==
    IF parts = <<>> THEN obj
    ELSE IF obj.t = "map"
    THEN LET key == parts[1]
             remaining == Tail(parts)
         IN IF ~HasKey(obj, key) THEN obj
            ELSE IF remaining = <<>>
            THEN IF Get(obj, key).t = "list"
                 THEN SetKey(obj, key, SortTargetList(Get(obj, key), sort_key))
                 ELSE obj
            ELSE SetKey(obj, key,
                        _sort_list_at_path(Get(obj, key), remaining, sort_key))
    ELSE IF obj.t = "list" /\ parts[1] = "*" /\ Tail(parts) # <<>>
    THEN VList([i \in 1..Len(obj.v) |->
                    _sort_list_at_path(obj.v[i], Tail(parts), sort_key)])
    ELSE obj

RECURSIVE SortKnownListsFrom(_, _)
SortKnownListsFrom(body, table) ==
    IF table = <<>> THEN body
    ELSE SortKnownListsFrom(
            _sort_list_at_path(body, SplitDots(table[1][1]), table[1][2]),
            Tail(table))

_sort_known_lists(body) == SortKnownListsFrom(body, UNORDERED_LIST_SORT_KEYS)

\* normalize_body works on a deep copy and returns it
normalize_body(body) == _sort_known_lists(_sort_keys_recursive(body))

-----------------------------------------------------------------------------
(* parser/manifest.py                                                      *)

\* A Resource is [api_version, kind, namespace, name, body]; its raw text
\* is carried by the program but read by no stage of the analysis.
Resource(api_version, kind, namespace, name, body) ==
    [api_version |-> api_version, kind |-> kind, namespace |-> namespace,
     name |-> name, body |-> body]

\* Resource.key (a property)
Resource_key(r) == r.api_version \o "/" \o r.kind \o "/" \o r.namespace \o "/" \o r.name

ResourcePair(old, new, status) == [old |-> old, new |-> new, status |-> status]

None == [t |-> "none", v |-> 0]

\* list({r.key: r for r in rs}.keys()): each key once, at its first place
RECURSIVE MapKeysOf(_)
MapKeysOf(rs) ==
    IF rs = <<>> THEN <<>>
    ELSE LET front == MapKeysOf(SubSeq(rs, 1, Len(rs) - 1))
             k == Resource_key(rs[Len(rs)])
         IN IF \E i \in 1..Len(front) : front[i] = k
            THEN front ELSE Append(front, k)

\* a mapping built with the first occurrence of a key as its value
FirstWithKey(rs, k) ==
    IF \E i \in 1..Len(rs) : Resource_key(rs[i]) = k
    THEN rs[CHOOSE i \in 1..Len(rs) :
                /\ Resource_key(rs[i]) = k
                /\ \A j \in 1..(i - 1) : Resource_key(rs[j]) # k]
    ELSE None

\* {r.key: r for r in rs}.get(k): the last occurrence of k, None if absent
MapGet(rs, k) ==
    IF \E i \in 1..Len(rs) : Resource_key(rs[i]) = k
    THEN rs[CHOOSE i \in 1..Len(rs) :
                /\ Resource_key(rs[i]) = k
                /\ \A j \in (i + 1)..Len(rs) : Resource_key(rs[j]) # k]
    ELSE None

\* list(dict.fromkeys(a + b))
RECURSIVE DedupKeys(_)
DedupKeys(ks) ==
    IF ks = <<>> THEN <<>>
    ELSE LET front == DedupKeys(SubSeq(ks, 1, Len(ks) - 1))
         IN IF \E i \in 1..Len(front) : front[i] = ks[Len(ks)]
            THEN front ELSE Append(front, ks[Len(ks)])

\* the status chain of pair_resources, lines 107-114
PairStatus(old_res, new_res) ==
    IF old_res = None THEN "added"
    ELSE IF new_res = None THEN "removed"
    ELSE IF PyEq(old_res.body, new_res.body) THEN "unchanged"
    ELSE "changed"

pair_resources(old, new) ==
    LET all_resource_keys == DedupKeys(MapKeysOf(old) \o MapKeysOf(new))
    IN [i \in 1..Len(all_resource_keys) |->
            LET old_res == MapGet(old, all_resource_keys[i])
                new_res == MapGet(new, all_resource_keys[i])
            IN ResourcePair(old_res, new_res, PairStatus(old_res, new_res))]

-----------------------------------------------------------------------------
(* parser/manifest.py: parse_multi_doc                                     *)
(* A text is the sequence of its lines (what splitlines yields, without     *)
(* the line ends); a document is the sequence of the lines between two      *)
(* separators.                                                              *)

\* an exception that leaves the call instead of a return value
Raised(exc) == [raised |-> exc]
IsRaised(x) == "raised" \in DOMAIN x
\* a call that came back with a list
Returned(value) == [returned |-> value]

\* m.get(k, default)
GetOr(m, k, default) == IF HasKey(m, k) THEN Get(m, k) ELSE default

\* the characters str.strip() removes, as far as the texts here hold them
Whitespace == {" "}

RECURSIVE SplitDocsFrom(_, _, _)
SplitDocsFrom(lines, current_lines, docs) ==
    IF lines = <<>>
    THEN IF current_lines # <<>> THEN Append(docs, current_lines) ELSE docs
    ELSE IF RStrip(Head(lines), Whitespace) = "---"
         THEN SplitDocsFrom(Tail(lines), <<>>,
                  IF current_lines # <<>> THEN Append(docs, current_lines)
                  ELSE docs)
         ELSE SplitDocsFrom(Tail(lines), Append(current_lines, Head(lines)), docs)

_split_raw_docs(text) == SplitDocsFrom(text, <<>>, <<>>)

\* raw_doc.strip() leaves nothing: every line is blank
IsBlankDoc(raw_doc) == \A i \in 1..Len(raw_doc) : Strip(raw_doc[i], Whitespace) = ""

YAMLError == Raised("YAMLError")

\* yaml.safe_load of a one-line document (PyYAML, a library: its results
\* for the documents used here)
LoadLine(line) ==
    CASE line = "{apiVersion: v1, kind: Service, metadata: {name: web, namespace: prod}}" ->
            VMap(<<E("apiVersion", VStr("v1")), E("kind", VStr("Service")),
                   E("metadata", VMap(<<E("name", VStr("web")),
                                        E("namespace", VStr("prod"))>>))>>)
      [] line = "{apiVersion: v1, kind: ConfigMap}" ->
            VMap(<<E("apiVersion", VStr("v1")), E("kind", VStr("ConfigMap"))>>)
      [] line = "{apiVersion: v1, kind: Secret, metadata: null}" ->
            VMap(<<E("apiVersion", VStr("v1")), E("kind", VStr("Secret")),
                   E("metadata", Null)>>)
      [] line = "{kind: Service, metadata: {name: web}}" ->
            VMap(<<E("kind", VStr("Service")),
                   E("metadata", VMap(<<E("name", VStr("web"))>>))>>)
      [] line = "NOTES" -> VStr("NOTES")
      [] OTHER -> YAMLError

\* yaml.safe_load(stripped): comment and blank lines carry no content; one
\* content line is loaded as it stands; several plain words fold into one
\* string; any other run of content lines is a syntax error
yaml_safe_load(raw_doc) ==
    LET content == SelectSeq(raw_doc,
                       LAMBDA l : Strip(l, Whitespace) # ""
                                    /\ ~StartsWith(Strip(l, Whitespace), "#"))
    IN IF content = <<>> THEN Null
       ELSE IF Len(content) = 1 THEN LoadLine(content[1])
       ELSE IF \A i \in 1..Len(content) : content[i] = "NOTES"
            THEN VStr("NOTES")
            ELSE YAMLError

RECURSIVE ParseDocsFrom(_, _, _)
ParseDocsFrom(raw_docs, default_namespace, resources) ==
    IF raw_docs = <<>> THEN Returned(resources)
    ELSE
    LET raw_doc == Head(raw_docs)
        rest == Tail(raw_docs)
        body == yaml_safe_load(raw_doc)
    IN IF IsBlankDoc(raw_doc) THEN ParseDocsFrom(rest, default_namespace, resources)
       ELSE IF IsRaised(body) THEN ParseDocsFrom(rest, default_namespace, resources)
       ELSE IF body.t # "map" THEN ParseDocsFrom(rest, default_namespace, resources)
       ELSE IF ~HasKey(body, "apiVersion") \/ ~HasKey(body, "kind")
            THEN ParseDocsFrom(rest, default_namespace, resources)
       ELSE LET metadata == GetOr(body, "metadata", VMap(<<>>))
            IN \* metadata.get on a value that is not a mapping
               IF metadata.t # "map" THEN Raised("AttributeError")
               ELSE ParseDocsFrom(rest, default_namespace,
                        Append(resources,
                            Resource(Get(body, "apiVersion").v, Get(body, "kind").v,
                                GetOr(metadata, "namespace", VStr(default_namespace)).v,
                                GetOr(metadata, "name", VStr("")).v,
                                body)))

parse_multi_doc(text, default_namespace) ==
    ParseDocsFrom(_split_raw_docs(text), default_namespace, <<>>)

-----------------------------------------------------------------------------
(* diff/engine.py: paths                                                   *)

\* A path segment is VStr(key) for a mapping key, VInt(i) for a list index.

\* How DeepDiff writes one mapping key inside the brackets of a path: in
\* single quotes, or in double quotes when the key holds a single quote.
DeepDiffKeyRepr(k) ==
    IF Contains(k, "'") THEN "\"" \o k \o "\"" ELSE "'" \o k \o "'"

\* The path string DeepDiff reports for a node: root['spec']['ports'][0]
RECURSIVE DeepDiffPath(_)
DeepDiffPath(segs) ==
    IF segs = <<>> THEN "root"
    ELSE LET last == segs[Len(segs)]
             inner == IF last.t = "str" THEN DeepDiffKeyRepr(last.v)
                      ELSE IntToStr(last.v)
         IN DeepDiffPath(SubSeq(segs, 1, Len(segs) - 1)) \o "[" \o inner \o "]"

\* _deepdiff_path_to_dot, lines 166-174: what one bracket adds to result
PathAppend(result, inner) ==
    IF StartsWith(inner, "'") \/ StartsWith(inner, "\"")
    THEN (IF result # "" THEN result \o "." ELSE result)
            \o Strip(inner, {"'", "\""})
    ELSE result \o "[" \o inner \o "]"

\* the while loop of _deepdiff_path_to_dot from position i (1-based)
RECURSIVE PathToDotLoop(_, _, _)
PathToDotLoop(path, i, result) ==
    IF i > Len(path) THEN result
    ELSE IF CharAt(path, i) = "["
    THEN LET end == Find(path, "]", i)
         IN IF end = 0 THEN "ValueError"
            ELSE PathToDotLoop(path, end + 1,
                               PathAppend(result, SubSeq(path, i + 1, end - 1)))
    ELSE PathToDotLoop(path, i + 1, result)

_deepdiff_path_to_dot(path) == PathToDotLoop(RemoveFirst(path, "root"), 1, "")

\* The path format: keys joined with ".", each index appended as "[i]".
RECURSIVE DotPathOf(_)
DotPathOf(segs) ==
    IF segs = <<>> THEN ""
    ELSE LET last == segs[Len(segs)]
             front == DotPathOf(SubSeq(segs, 1, Len(segs) - 1))
         IN IF last.t = "str"
            THEN (IF Len(segs) > 1 THEN front \o "." ELSE front) \o last.v
            ELSE front \o "[" \o IntToStr(last.v) \o "]"

-----------------------------------------------------------------------------
(* diff/engine.py: the structural diff                                     *)

DiffEntry(report, segs, old_value, new_value) ==
    [report |-> report, path |-> DeepDiffPath(segs),
     old_value |-> old_value, new_value |-> new_value]

RECURSIVE ConcatAll(_)
ConcatAll(seqs) ==
    IF seqs = <<>> THEN <<>> ELSE seqs[1] \o ConcatAll(Tail(seqs))

\* DeepDiff(t1, t2, verbose_level=2): the differences below one node, in
\* the order of the walk.  Values of different Python types are a type
\* change; equal-typed scalars that differ are a value change; mappings are
\* compared key by key; lists position by position.
RECURSIVE DeepDiffWalk(_, _, _)
DeepDiffWalk(t1, t2, segs) ==
    IF t1.t # t2.t
    THEN <<DiffEntry("type_changes", segs, t1, t2)>>
    ELSE IF t1.t = "map"
    THEN ConcatAll([i \in 1..Len(t2.v) |->
                IF HasKey(t1, t2.v[i].k) THEN <<>>
                ELSE <<DiffEntry("dictionary_item_added",
                                 Append(segs, VStr(t2.v[i].k)),
                                 Null, t2.v[i].v)>>])
         \o ConcatAll([i \in 1..Len(t1.v) |->
                IF HasKey(t2, t1.v[i].k)
                THEN DeepDiffWalk(t1.v[i].v, Get(t2, t1.v[i].k),
                                  Append(segs, VStr(t1.v[i].k)))
                ELSE <<DiffEntry("dictionary_item_removed",
                                 Append(segs, VStr(t1.v[i].k)),
                                 t1.v[i].v, Null)>>])
    ELSE IF t1.t = "list"
    THEN LET n == IF Len(t1.v) > Len(t2.v) THEN Len(t1.v) ELSE Len(t2.v)
         IN ConcatAll([i \in 1..n |->
                IF i > Len(t2.v)
                THEN <<DiffEntry("iterable_item_removed",
                                 Append(segs, VInt(i - 1)), t1.v[i], Null)>>
                ELSE IF i > Len(t1.v)
                THEN <<DiffEntry("iterable_item_added",
                                 Append(segs, VInt(i - 1)), Null, t2.v[i])>>
                ELSE DeepDiffWalk(t1.v[i], t2.v[i],
                                  Append(segs, VInt(i - 1)))])
    ELSE IF t1.v # t2.v
    THEN <<DiffEntry("values_changed", segs, t1, t2)>>
    ELSE <<>>

DeepDiff(t1, t2) == DeepDiffWalk(t1, t2, <<>>)

FieldChange(path, old_value, new_value, change_type) ==
    [path |-> path, old_value |-> old_value, new_value |-> new_value,
     change_type |-> change_type]

\* dd.get(report, {}).items() turned into FieldChanges of one change type
RECURSIVE ChangesOf(_, _, _)
ChangesOf(dd, report, change_type) ==
    IF dd = <<>> THEN <<>>
    ELSE (IF dd[1].report = report
          THEN <<FieldChange(_deepdiff_path_to_dot(dd[1].path),
                             dd[1].old_value, dd[1].new_value, change_type)>>
          ELSE <<>>)
         \o ChangesOf(Tail(dd), report, change_type)

_extract_changes(dd) ==
    ChangesOf(dd, "values_changed", "value_changed")
    \o ChangesOf(dd, "type_changes", "type_changed")
    \o ChangesOf(dd, "dictionary_item_added", "item_added")
    \o ChangesOf(dd, "dictionary_item_removed", "item_removed")
    \o ChangesOf(dd, "iterable_item_added", "item_added")
    \o ChangesOf(dd, "iterable_item_removed", "item_removed")

ChangeRecord(res, status, changes) ==
    [resource_key |-> Resource_key(res), kind |-> res.kind, name |-> res.name,
     namespace |-> res.namespace, status |-> status, changes |-> changes]

\* the bodies compared when the normalization step is left out
PreparedBodyUnnormalized(body, show_all, extra_ignores) ==
    IF show_all THEN body ELSE strip_noise(body, extra_ignores)

\* compute_diff, lines 72-77: the two bodies that are compared
PreparedBody(body, show_all, extra_ignores) ==
    normalize_body(IF show_all THEN body ELSE strip_noise(body, extra_ignores))

compute_diff(pair, show_all, extra_ignores) ==
    IF pair.status = "unchanged" THEN None
    ELSE IF pair.status = "added" THEN ChangeRecord(pair.new, "added", <<>>)
    ELSE IF pair.status = "removed" THEN ChangeRecord(pair.old, "removed", <<>>)
    ELSE LET old_body == PreparedBody(pair.old.body, show_all, extra_ignores)
             new_body == PreparedBody(pair.new.body, show_all, extra_ignores)
             changes == _extract_changes(DeepDiff(old_body, new_body))
         IN IF is_semantically_equal(old_body, new_body) THEN None
            ELSE IF changes = <<>> THEN None
            ELSE ChangeRecord(pair.old, "changed", changes)

RECURSIVE diff_all(_, _, _)
diff_all(ps, show_all, extra_ignores) ==
    IF ps = <<>> THEN <<>>
    ELSE LET record == compute_diff(ps[1], show_all, extra_ignores)
         IN (IF record # None THEN <<record>> ELSE <<>>)
            \o diff_all(Tail(ps), show_all, extra_ignores)

-----------------------------------------------------------------------------
(* Object identity: which mapping object a call writes to                  *)
(* A heap is a sequence of mapping objects; a reference is a position in   *)
(* it. del obj[k] and obj[key] = sorted(...) write to the object they are   *)
(* given, so a call leaves its argument alone only if it writes to another  *)
(* object.                                                                  *)

\* a copy that hands back the object it was given
copy_same_object(h, ref) == [heap |-> h, ref |-> ref]

\* copy.deepcopy(body): a new object equal to the one referred to
copy_deepcopy(h, ref) == [heap |-> Append(h, h[ref]), ref |-> Len(h) + 1]

\* strip_noise, lines 18-22: _remove_path deletes keys of result in place
strip_noise_call(h, body, extra_ignores) ==
    LET result == copy_deepcopy(h, body)
    IN [heap |-> [result.heap EXCEPT
                    ![result.ref] = RemovePaths(@, NOISE_PATHS \o extra_ignores)],
        ref |-> result.ref]

\* normalize_body, lines 67-70: _sort_keys_recursive builds a new
\* structure, and _sort_known_lists replaces lists of that structure
normalize_body_call(h, body) ==
    LET copied == copy_deepcopy(h, body)
        sorted == Append(copied.heap, _sort_keys_recursive(copied.heap[copied.ref]))
        result == Len(sorted)
    IN [heap |-> [sorted EXCEPT ![result] = _sort_known_lists(@)], ref |-> result]

\* compute_diff, lines 69-77, for a pair whose bodies are the objects old
\* and new; the comparisons after line 77 read the prepared bodies
compute_diff_call(h, status, old, new, show_all, extra_ignores) ==
    IF status # "changed" THEN h
    ELSE LET old_stripped == IF show_all THEN [heap |-> h, ref |-> old]
                             ELSE strip_noise_call(h, old, extra_ignores)
             new_stripped == IF show_all THEN [heap |-> old_stripped.heap, ref |-> new]
                             ELSE strip_noise_call(old_stripped.heap, new, extra_ignores)
             old_body == normalize_body_call(new_stripped.heap, old_stripped.ref)
             new_body == normalize_body_call(old_body.heap, new_stripped.ref)
         IN new_body.heap

-----------------------------------------------------------------------------
(* analysis/risk.py                                                        *)

\* RiskLevel
SAFE == "safe"
WARNING == "warning"
DANGER == "danger"

RiskAnnotation(level, rule, message, path) ==
    [level |-> level, rule |-> rule, message |-> message, path |-> path]

\* str(n) for an int
SignedIntToStr(n) == IF n < 0 THEN "-" \o IntToStr(0 - n) ELSE IntToStr(n)

RECURSIVE ZeroPad(_, _)
ZeroPad(s, width) == IF Len(s) >= width THEN s ELSE ZeroPad("0" \o s, width)

\* repr(x) for a float held as the decimal <<m, e>>
FloatRepr(d) ==
    LET a == IF d[1] < 0 THEN 0 - d[1] ELSE d[1]
        whole == a \div Pow10(d[2])
        frac == a % Pow10(d[2])
    IN (IF d[1] < 0 THEN "-" ELSE "") \o IntToStr(whole) \o "."
          \o (IF d[2] = 0 THEN "0" ELSE ZeroPad(IntToStr(frac), d[2]))

RECURSIVE JoinStrings(_, _)
JoinStrings(parts, sep) ==
    IF parts = <<>> THEN ""
    ELSE IF Len(parts) = 1 THEN parts[1]
    ELSE parts[1] \o sep \o JoinStrings(Tail(parts), sep)

\* repr(s) for a str without backslashes: single quotes, or double quotes
\* when s holds a single quote and no double quote
StrRepr(s) ==
    IF Contains(s, "'") /\ ~Contains(s, "\"")
    THEN "\"" \o s \o "\"" ELSE "'" \o s \o "'"

RECURSIVE PyRepr(_)
PyRepr(x) ==
    CASE x.t = "null" -> "None"
      [] x.t = "bool" -> IF x.v THEN "True" ELSE "False"
      [] x.t = "int" -> SignedIntToStr(x.v)
      [] x.t = "float" -> FloatRepr(x.v)
      [] x.t = "str" -> StrRepr(x.v)
      [] x.t = "list" ->
            "[" \o JoinStrings([i \in 1..Len(x.v) |-> PyRepr(x.v[i])], ", ") \o "]"
      [] x.t = "map" ->
            "{" \o JoinStrings([i \in 1..Len(x.v) |->
                        StrRepr(x.v[i].k) \o ": " \o PyRepr(x.v[i].v)], ", ")
                \o "}"

\* what an f-string writes for {x}
PyStr(x) == IF x.t = "str" THEN x.v ELSE PyRepr(x)

\* the annotations one FieldChange draws from the immutable paths of a kind
RECURSIVE ImmutableHits(_, _, _)
ImmutableHits(change, fc, immutable_paths) ==
    IF immutable_paths = <<>> THEN <<>>
    ELSE (IF StartsWith(fc.path, immutable_paths[1])
          THEN <<RiskAnnotation(DANGER, "immutable_field",
                    "Immutable field '" \o fc.path \o "' changed on "
                        \o change.kind \o "/" \o change.name,
                    fc.path)>>
          ELSE <<>>)
         \o ImmutableHits(change, fc, Tail(immutable_paths))

check_immutable_fields(change) ==
    ConcatAll([i \in 1..Len(change.changes) |->
        ImmutableHits(change, change.changes[i],
                      IMMUTABLE_FIELDS(Lower(change.kind)))])

\* a level rule that escalates on the new exposure alone
ServiceTypeLevelByNewValue(fc) ==
    IF \/ PyEq(fc.new_value, VStr("NodePort"))
       \/ PyEq(fc.new_value, VStr("LoadBalancer"))
    THEN DANGER ELSE WARNING

\* check_service_type_change, lines 53-55
ServiceTypeLevel(fc) ==
    IF /\ PyEq(fc.old_value, VStr("ClusterIP"))
       /\ \/ PyEq(fc.new_value, VStr("NodePort"))
          \/ PyEq(fc.new_value, VStr("LoadBalancer"))
    THEN DANGER ELSE WARNING

check_service_type_change(change) ==
    IF change.kind # "Service" THEN <<>>
    ELSE ConcatAll([i \in 1..Len(change.changes) |->
            LET fc == change.changes[i]
            IN IF fc.path = "spec.type"
               THEN <<RiskAnnotation(ServiceTypeLevel(fc), "service_type_change",
                        "Service type changed from " \o PyStr(fc.old_value)
                            \o " to " \o PyStr(fc.new_value),
                        fc.path)>>
               ELSE <<>>])

check_pvc_changes(change) ==
    IF change.kind # "PersistentVolumeClaim" THEN <<>>
    ELSE ConcatAll([i \in 1..Len(change.changes) |->
            LET fc == change.changes[i]
            IN (IF Contains(fc.path, "storage") /\ Contains(fc.path, "requests")
                THEN <<RiskAnnotation(WARNING, "pvc_storage_change",
                        "PVC storage request changed from " \o PyStr(fc.old_value)
                            \o " to " \o PyStr(fc.new_value),
                        fc.path)>>
                ELSE <<>>)
               \o (IF fc.path = "spec.storageClassName"
                   THEN <<RiskAnnotation(DANGER, "pvc_storage_class_change",
                        "PVC storageClassName changed from "
                            \o PyStr(fc.old_value) \o " to " \o PyStr(fc.new_value),
                        fc.path)>>
                   ELSE <<>>)])

\* a deletion rule that warns only about records that list field changes
check_resource_deletion_with_changes(change) ==
    IF change.status # "removed" \/ change.changes = <<>> THEN <<>>
    ELSE <<RiskAnnotation(WARNING, "resource_deleted",
                change.kind \o "/" \o change.name \o " will be removed", "")>>

check_resource_deletion(change) ==
    IF change.status # "removed" THEN <<>>
    ELSE <<RiskAnnotation(WARNING, "resource_deleted",
                change.kind \o "/" \o change.name \o " will be removed", "")>>

danger_prefixes == <<"spec.scope", "spec.versions", "spec.validation", "spec.names">>

check_crd_changes(change) ==
    IF change.kind # "CustomResourceDefinition" THEN <<>>
    ELSE ConcatAll([i \in 1..Len(change.changes) |->
            LET fc == change.changes[i]
            IN IF \E j \in 1..Len(danger_prefixes) :
                    StartsWith(fc.path, danger_prefixes[j])
               THEN <<RiskAnnotation(DANGER, "crd_spec_change",
                        "CRD spec change at '" \o fc.path \o "' on " \o change.name,
                        fc.path)>>
               ELSE <<>>])

check_rbac_escalation(change) ==
    IF change.kind \notin {"ClusterRole", "Role"} THEN <<>>
    ELSE ConcatAll([i \in 1..Len(change.changes) |->
            LET fc == change.changes[i]
            IN IF StartsWith(fc.path, "rules")
               THEN <<RiskAnnotation(WARNING, "rbac_change",
                        "RBAC rules changed at '" \o fc.path \o "' on "
                            \o change.kind \o "/" \o change.name,
                        fc.path)>>
               ELSE <<>>])

\* a registry that lists the deletion rule first
RISK_RULES_deletion_first ==
    <<"check_resource_deletion", "check_immutable_fields",
      "check_service_type_change", "check_pvc_changes",
      "check_crd_changes", "check_rbac_escalation">>

RISK_RULES ==
    <<"check_immutable_fields", "check_service_type_change",
      "check_pvc_changes", "check_resource_deletion",
      "check_crd_changes", "check_rbac_escalation">>

\* rule(change) for a rule of the registry
ApplyRule(rule, change) ==
    CASE rule = "check_immutable_fields" -> check_immutable_fields(change)
      [] rule = "check_service_type_change" -> check_service_type_change(change)
      [] rule = "check_pvc_changes" -> check_pvc_changes(change)
      [] rule = "check_resource_deletion" -> check_resource_deletion(change)
      [] rule = "check_crd_changes" -> check_crd_changes(change)
      [] rule = "check_rbac_escalation" -> check_rbac_escalation(change)

\* assess_risk, lines 155-157: the annotations of one change
RECURSIVE RunRules(_, _)
RunRules(rules, change) ==
    IF rules = <<>> THEN <<>>
    ELSE ApplyRule(rules[1], change) \o RunRules(Tail(rules), change)

assess_risk(changes) ==
    [i \in 1..Len(changes) |-> <<changes[i], RunRules(RISK_RULES, changes[i])>>]

-----------------------------------------------------------------------------
(* analysis/ownership.py                                                   *)

\* bool(x) of a Python value
Truthy(x) ==
    CASE x.t = "null" -> FALSE
      [] x.t = "bool" -> x.v
      [] x.t = "int" -> x.v # 0
      [] x.t = "float" -> x.v[1] # 0
      [] x.t = "str" -> x.v # ""
      [] x.t \in {"list", "map"} -> x.v # <<>>

OwnershipInfo(manager, release, app) ==
    [manager |-> manager, release |-> release, app |-> app, warnings |-> <<>>]

IsFluxKey(k) == Contains(k, "fluxcd.io") \/ Contains(k, "kustomize.toolkit.fluxcd.io")

\* A value without a get method (None, a string, a list, a number) raises
\* AttributeError where the code calls .get on it, and a managed-by label
\* that is not a string raises it at .lower().
detect_ownership(resource) ==
    LET metadata == GetOr(resource.body, "metadata", VMap(<<>>))
    IN IF metadata.t # "map" THEN Raised("AttributeError")
       ELSE
       LET labels == GetOr(metadata, "labels", VMap(<<>>))
           annotations == GetOr(metadata, "annotations", VMap(<<>>))
       IN IF labels.t # "map" \/ annotations.t # "map"
          THEN Raised("AttributeError")
          ELSE
          LET managed_by == GetOr(labels, "app.kubernetes.io/managed-by", VStr(""))
              helm_release == GetOrNull(annotations, "meta.helm.sh/release-name")
              argocd_annotation ==
                  GetOrNull(annotations, "argocd.argoproj.io/managed-by")
              argocd_app ==
                  IF ~Truthy(argocd_annotation)
                  THEN GetOrNull(labels, "argocd.argoproj.io/instance")
                  ELSE argocd_annotation
              flux_keys == {k \in Keys(annotations) : IsFluxKey(k)}
              flux_labels == {k \in Keys(labels) : IsFluxKey(k)}
          IN IF managed_by.t # "str" THEN Raised("AttributeError")
             ELSE IF Lower(managed_by.v) = "helm" \/ Truthy(helm_release)
             THEN OwnershipInfo("helm",
                      IF Truthy(helm_release) THEN helm_release
                      ELSE GetOrNull(labels, "app.kubernetes.io/instance"),
                      Null)
             ELSE IF Truthy(argocd_app)
             THEN OwnershipInfo("argocd", Null, argocd_app)
             ELSE IF flux_keys # {} \/ flux_labels # {}
             THEN OwnershipInfo("flux", Null, Null)
             ELSE OwnershipInfo("unknown", Null, Null)

-----------------------------------------------------------------------------
(* cli.py                                                                  *)

\* sum(1 for p in pairs if p.status == "unchanged")
CountUnchangedPairs(ps) ==
    Cardinality({i \in 1..Len(ps) : ps[i].status = "unchanged"})

-----------------------------------------------------------------------------
(* core/runner.py, core/kubectl.py and cli._apply_server_side              *)

\* What the child process of one invocation does: it runs past the timeout,
\* or exits with a return code after writing stdout.
Process(timed_out, returncode, stdout) ==
    [timed_out |-> timed_out, returncode |-> returncode, stdout |-> stdout]

\* runner.run: subprocess.run raises TimeoutExpired when the timeout
\* passes; a non-zero return code raises RunError
run(proc) ==
    IF proc.timed_out THEN Raised("TimeoutExpired")
    ELSE IF proc.returncode # 0 THEN Raised("RunError")
    ELSE Returned(proc.stdout)

server_side_dry_run(proc) == run(proc)

\* One pass of the loop body for res: the entry appended to results, or
\* the exception that leaves the loop. Only RunError is caught.
ApplyOneResource(res, proc, namespace) ==
    LET mutated_yaml == server_side_dry_run(proc)
    IN IF IsRaised(mutated_yaml)
       THEN IF mutated_yaml.raised = "RunError" THEN Returned(res)
            ELSE mutated_yaml
       ELSE LET mutated == parse_multi_doc(mutated_yaml.returned, namespace)
            IN IF IsRaised(mutated) THEN mutated
               ELSE IF mutated.returned # <<>> THEN Returned(mutated.returned[1])
               ELSE Returned(res)

-----------------------------------------------------------------------------
(* Inputs and idle values                                                  *)

\* nesting depth of the values compared by is_semantically_equal
SemDepth == 1

SemScalars ==
    {Null, VBool(TRUE), VBool(FALSE), VInt(80), VInt(1), VInt(0),
     VFloat(15, 1), VFloat(10, 1),
     VStr("80"), VStr("080"), VStr("1"), VStr("1.0"), VStr("1.5"),
     VStr("true"), VStr("True"), VStr("yes"), VStr("no"), VStr("false"),
     VStr("abc"), VStr("")}

RECURSIVE SemValues(_)
SemValues(d) ==
    IF d = 0 THEN SemScalars
    ELSE LET prev == SemValues(d - 1)
         IN prev
            \cup {VMap(<<>>), VList(<<>>)}
            \cup {VMap(<<E("port", x)>>) : x \in prev}
            \cup {VMap(<<E("x", Null), E("port", x)>>) : x \in SemScalars}
            \cup {VList(<<x>>) : x \in prev}

PipelineIdle ==
    /\ live_resources = <<>>
    /\ upgrade_resources = <<>>
    /\ pairs = <<>>
    /\ change_records = <<>>
    /\ risk_results = <<>>
    /\ total_unchanged = 0

SemIdle == val_a = Null /\ val_b = Null /\ eq_ab = FALSE /\ eq_ba = FALSE
PathIdle == path_segs = <<>> /\ dd_path = "" /\ dot_path = ""
NormIdle == body_in = Null /\ norm_once = Null /\ norm_twice = Null
DiffIdle == diff_pair = None /\ diff_leaf = <<>> /\ diff_record = None
RiskIdle == risk_change = None /\ risk_annotations = <<>>
OwnIdle == own_resource = None /\ own_info = None
ParseIdle == yaml_text = <<>> /\ parse_result = None
ApplyIdle ==
    /\ apply_resources = <<>> /\ apply_outcomes = <<>>
    /\ apply_results = <<>> /\ apply_raised = ""
FrameIdle == heap = <<>> /\ heap_before = <<>>

-----------------------------------------------------------------------------
(* Path conversion applied to the path of one node                         *)

\* longest generated path
MaxPathLen == 3

PathKeys == {"spec", "image", "a]b", "it's"}
PathIndices == {0, 12}
PathSegments == {VStr(k) : k \in PathKeys} \cup {VInt(i) : i \in PathIndices}

ContainerImagePath ==
    <<VStr("spec"), VStr("template"), VStr("spec"), VStr("containers"),
      VInt(0), VStr("image")>>

\* paths into a body: the root is a mapping, so the first segment is a key
PathInputs ==
    {ContainerImagePath}
    \cup {p \in UNION {[1..n -> PathSegments] : n \in 1..MaxPathLen} :
             p[1].t = "str"}

InitPath ==
    /\ pc = "path"
    /\ path_segs \in PathInputs
    /\ dd_path = "" /\ dot_path = ""
    /\ PipelineIdle /\ SemIdle /\ NormIdle /\ DiffIdle /\ RiskIdle
    /\ OwnIdle /\ ParseIdle /\ ApplyIdle /\ FrameIdle

\* DeepDiff reports the node; _extract_changes converts its path
ConvertPath ==
    /\ pc = "path"
    /\ dd_path' = DeepDiffPath(path_segs)
    /\ dot_path' = _deepdiff_path_to_dot(DeepDiffPath(path_segs))
    /\ pc' = "path_done"
    /\ UNCHANGED <<path_segs, pipeline_vars, sem_vars, norm_vars, diff_vars,
                   risk_vars,
                   own_vars, parse_vars, apply_vars, frame_vars>>

NextPath == ConvertPath

SpecPath == InitPath /\ [][NextPath]_vars

-----------------------------------------------------------------------------
(* normalize_body applied to a body, then to its own result                *)

\* longest list placed under a configured list path
MaxListLen == 3

\* candidates for the elements of spec.ports (sorted by "port")
PortItems ==
    {VMap(<<E("port", VInt(443)), E("name", VStr("https"))>>),
     VMap(<<E("name", VStr("http")), E("port", VInt(80))>>),
     VMap(<<E("port", VInt(80)), E("name", VStr("alt"))>>),
     VMap(<<E("name", VStr("nameless"))>>),
     VMap(<<E("port", VStr("metrics"))>>),
     VStr("9090")}

\* candidates for the elements of a container's env (sorted by "name")
EnvItems ==
    {VMap(<<E("value", VStr("1")), E("name", VStr("B"))>>),
     VMap(<<E("name", VStr("A")), E("value", VStr("2"))>>),
     VMap(<<E("name", VStr("A")), E("value", VStr("3"))>>),
     VMap(<<E("value", VStr("4"))>>),
     VMap(<<E("name", Null)>>)}

SeqsUpTo(S, n) == UNION {[1..m -> S] : m \in 0..n}

ServiceBody(ports) ==
    VMap(<<E("spec", VMap(<<E("type", VStr("ClusterIP")), E("ports", ports)>>)),
           E("kind", VStr("Service")),
           E("apiVersion", VStr("v1")),
           E("metadata", VMap(<<E("name", VStr("web"))>>))>>)

DeploymentBody(env) ==
    VMap(<<E("kind", VStr("Deployment")),
           E("apiVersion", VStr("apps/v1")),
           E("spec", VMap(<<E("template", VMap(<<E("spec", VMap(<<
                E("containers", VList(<<
                    VMap(<<E("name", VStr("app")),
                           E("image", VStr("app:1")),
                           E("env", env)>>)>>))>>))>>))>>))>>)

NormInputs ==
    {ServiceBody(VList(l)) : l \in SeqsUpTo(PortItems, MaxListLen)}
    \cup {DeploymentBody(VList(l)) : l \in SeqsUpTo(EnvItems, MaxListLen)}
    \cup {ServiceBody(VStr("none")), DeploymentBody(Null)}

InitNorm ==
    /\ pc = "norm"
    /\ body_in \in NormInputs
    /\ norm_once = Null /\ norm_twice = Null
    /\ PipelineIdle /\ SemIdle /\ PathIdle /\ DiffIdle /\ RiskIdle
    /\ OwnIdle /\ ParseIdle /\ ApplyIdle /\ FrameIdle

NormalizeBody ==
    /\ pc = "norm"
    /\ norm_once' = normalize_body(body_in)
    /\ pc' = "norm_again"
    /\ UNCHANGED <<body_in, norm_twice, pipeline_vars, sem_vars, path_vars,
                   diff_vars, risk_vars,
                   own_vars, parse_vars, apply_vars, frame_vars>>

NormalizeAgain ==
    /\ pc = "norm_again"
    /\ norm_twice' = normalize_body(norm_once)
    /\ pc' = "norm_done"
    /\ UNCHANGED <<body_in, norm_once, pipeline_vars, sem_vars, path_vars,
                   diff_vars, risk_vars,
                   own_vars, parse_vars, apply_vars, frame_vars>>

NextNorm == NormalizeBody \/ NormalizeAgain

SpecNorm == InitNorm /\ [][NextNorm]_vars

-----------------------------------------------------------------------------
(* compute_diff applied to a pair whose bodies differ at one leaf          *)

\* the paths to the scalar leaves of a value
RECURSIVE LeafPaths(_)
LeafPaths(x) ==
    IF x.t = "map"
    THEN UNION {{<<VStr(x.v[i].k)>> \o p : p \in LeafPaths(x.v[i].v)} :
                    i \in 1..Len(x.v)}
    ELSE IF x.t = "list"
    THEN UNION {{<<VInt(i - 1)>> \o p : p \in LeafPaths(x.v[i])} :
                    i \in 1..Len(x.v)}
    ELSE {<<>>}

\* the node of x at a path
RECURSIVE ValueAt(_, _)
ValueAt(x, segs) ==
    IF segs = <<>> THEN x
    ELSE IF segs[1].t = "str" THEN ValueAt(Get(x, segs[1].v), Tail(segs))
    ELSE ValueAt(x.v[segs[1].v + 1], Tail(segs))

\* x with the node at a path replaced by val
RECURSIVE ReplaceAt(_, _, _)
ReplaceAt(x, segs, val) ==
    IF segs = <<>> THEN val
    ELSE IF segs[1].t = "str"
    THEN SetKey(x, segs[1].v, ReplaceAt(Get(x, segs[1].v), Tail(segs), val))
    ELSE VList([i \in 1..Len(x.v) |->
                    IF i = segs[1].v + 1
                    THEN ReplaceAt(x.v[i], Tail(segs), val) ELSE x.v[i]])

WebService ==
    VMap(<<E("apiVersion", VStr("v1")),
           E("kind", VStr("Service")),
           E("metadata", VMap(<<E("name", VStr("web")),
                                E("resourceVersion", VStr("41")),
                                E("labels", VMap(<<E("app", VStr("web"))>>))>>)),
           E("spec", VMap(<<E("type", VStr("ClusterIP")),
                            E("ports", VList(<<
                                VMap(<<E("name", VStr("https")),
                                       E("port", VInt(443))>>),
                                VMap(<<E("name", VStr("http")),
                                       E("port", VInt(80)),
                                       E("targetPort", VStr("8080"))>>)>>))>>))>>)

AppDeployment ==
    VMap(<<E("apiVersion", VStr("apps/v1")),
           E("kind", VStr("Deployment")),
           E("metadata", VMap(<<E("name", VStr("app"))>>)),
           E("spec", VMap(<<E("replicas", VInt(1)),
                            E("paused", VBool(FALSE)),
                            E("template", VMap(<<E("spec", VMap(<<
                E("containers", VList(<<
                    VMap(<<E("name", VStr("app")),
                           E("image", VStr("app:1")),
                           E("args", VList(<<VStr("-v"), VStr("2")>>)),
                           E("env", VList(<<
                                VMap(<<E("name", VStr("B")),
                                       E("value", VStr("1"))>>),
                                VMap(<<E("name", VStr("A")),
                                       E("value", Null)>>)>>))>>)>>))>>))>>))>>))>>)

SettingsConfigMap ==
    VMap(<<E("apiVersion", VStr("v1")),
           E("kind", VStr("ConfigMap")),
           E("metadata", VMap(<<E("name", VStr("settings"))>>)),
           E("data", VMap(<<E("a]b", VStr("x")),
                            E("ratio", VFloat(15, 1))>>))>>)

DiffBases == {WebService, AppDeployment, SettingsConfigMap}

\* the values put in the place of a leaf
LeafReplacements ==
    {VStr("changed"), VStr("80"), VStr("1"), VStr("true"), VStr("C"),
     VInt(80), VInt(7), VBool(TRUE), VFloat(25, 1), Null}

\* parse_multi_doc, lines 58-66: the Resource of a body of the model
ResourceOf(body) ==
    Resource(Get(body, "apiVersion").v, Get(body, "kind").v, "default",
             Get(Get(body, "metadata"), "name").v, body)

\* the fields a Resource takes its identity from
IdentityLeaves ==
    {<<VStr("apiVersion")>>, <<VStr("kind")>>,
     <<VStr("metadata"), VStr("name")>>}

InitDiff ==
    /\ pc = "compute_diff"
    /\ \E base \in DiffBases :
         \E leaf \in LeafPaths(base) \ IdentityLeaves :
           \E val \in LeafReplacements \ {ValueAt(base, leaf)} :
              /\ diff_leaf = leaf
              /\ diff_pair = pair_resources(
                                <<ResourceOf(base)>>,
                                <<Resource(ResourceOf(base).api_version,
                                           ResourceOf(base).kind,
                                           ResourceOf(base).namespace,
                                           ResourceOf(base).name,
                                           ReplaceAt(base, leaf, val))>>)[1]
    /\ diff_record = None
    /\ PipelineIdle /\ SemIdle /\ PathIdle /\ NormIdle /\ RiskIdle
    /\ OwnIdle /\ ParseIdle /\ ApplyIdle /\ FrameIdle

ComputeDiff ==
    /\ pc = "compute_diff"
    /\ diff_record' = compute_diff(diff_pair, FALSE, <<>>)
    /\ pc' = "compute_diff_done"
    /\ UNCHANGED <<diff_pair, diff_leaf, pipeline_vars, sem_vars, path_vars,
                   norm_vars, risk_vars,
                   own_vars, parse_vars, apply_vars, frame_vars>>

NextDiff == ComputeDiff

SpecDiff == InitDiff /\ [][NextDiff]_vars

-----------------------------------------------------------------------------
(* compute_diff applied to a pair with one edit of representation and one  *)
(* further edit                                                            *)

\* the same value written the other way: a number or a boolean as a string
OtherForm(x) ==
    IF x.t = "int" THEN VStr(SignedIntToStr(x.v))
    ELSE VStr(IF x.v THEN "true" ELSE "false")

\* base with one value written the other way, or with a null entry added
RepresentationEdits(base) ==
    {ReplaceAt(base, leaf, OtherForm(ValueAt(base, leaf))) :
        leaf \in {l \in LeafPaths(base) : ValueAt(base, l).t \in {"int", "bool"}}}
    \cup {VMap(base.v \o <<E("extra", Null)>>)}

InitGate ==
    /\ pc = "compute_diff"
    /\ \E base \in DiffBases :
         \E rewritten \in RepresentationEdits(base) :
           \E leaf \in LeafPaths(base) \ IdentityLeaves :
             \E val \in LeafReplacements \ {ValueAt(rewritten, leaf)} :
                /\ diff_leaf = leaf
                /\ diff_pair = pair_resources(
                                  <<ResourceOf(base)>>,
                                  <<Resource(ResourceOf(base).api_version,
                                             ResourceOf(base).kind,
                                             ResourceOf(base).namespace,
                                             ResourceOf(base).name,
                                             ReplaceAt(rewritten, leaf, val))>>)[1]
    /\ diff_record = None
    /\ PipelineIdle /\ SemIdle /\ PathIdle /\ NormIdle /\ RiskIdle
    /\ OwnIdle /\ ParseIdle /\ ApplyIdle /\ FrameIdle

SpecGate == InitGate /\ [][NextDiff]_vars

-----------------------------------------------------------------------------
(* compute_diff applied to a pair that differs in noise fields only        *)

\* A ConfigMap with the chosen server-set and release-tool fields. keep
\* holds the annotations and labels of the chart itself, which both sides
\* of a pair share; noise holds the fields the NOISE_PATHS name.
NoisyConfigMap(keep, noise) ==
    LET annotations ==
            (IF "annotation" \in keep THEN <<E("owner", VStr("team"))>> ELSE <<>>)
            \o (IF "release-name" \in noise
                THEN <<E("meta.helm.sh/release-name", VStr("shop"))>> ELSE <<>>)
        labels ==
            (IF "label" \in keep THEN <<E("app", VStr("cfg"))>> ELSE <<>>)
            \o (IF "chart" \in noise
                THEN <<E("helm.sh/chart", VStr("shop-1.2.0"))>> ELSE <<>>)
        metadata ==
            <<E("name", VStr("cfg"))>>
            \o (IF "uid" \in noise THEN <<E("uid", VStr("u-1"))>> ELSE <<>>)
            \o (IF "annotation" \in keep \/ "release-name" \in noise
                THEN <<E("annotations", VMap(annotations))>> ELSE <<>>)
            \o (IF "label" \in keep \/ "chart" \in noise
                THEN <<E("labels", VMap(labels))>> ELSE <<>>)
    IN VMap(<<E("apiVersion", VStr("v1")), E("kind", VStr("ConfigMap")),
              E("metadata", VMap(metadata)),
              E("data", VMap(<<E("level", VStr("info"))>>))>>
            \o (IF "status" \in noise THEN <<E("status", VMap(<<>>))>> ELSE <<>>))

NoiseFields == {"release-name", "chart", "uid", "status"}

InitNoise ==
    /\ pc = "compute_diff"
    /\ \E keep \in SUBSET {"annotation", "label"} :
         \E old_noise \in SUBSET NoiseFields :
           \E new_noise \in SUBSET NoiseFields :
              diff_pair = pair_resources(
                              <<ResourceOf(NoisyConfigMap(keep, old_noise))>>,
                              <<ResourceOf(NoisyConfigMap(keep, new_noise))>>)[1]
    /\ diff_leaf = <<>>
    /\ diff_record = None
    /\ PipelineIdle /\ SemIdle /\ PathIdle /\ NormIdle /\ RiskIdle
    /\ OwnIdle /\ ParseIdle /\ ApplyIdle /\ FrameIdle

SpecNoise == InitNoise /\ [][NextDiff]_vars

-----------------------------------------------------------------------------
(* assess_risk applied to one ChangeRecord                                 *)

\* most FieldChanges in the assessed ChangeRecord
MaxChanges == 2

RiskKinds ==
    {"Service", "service", "PersistentVolumeClaim", "Deployment",
     "CustomResourceDefinition", "Role", "ConfigMap"}

RiskFieldChanges ==
    {FieldChange("spec.type", VStr("ClusterIP"), VStr("LoadBalancer"), "value_changed"),
     FieldChange("spec.type", VStr("ClusterIP"), VStr("NodePort"), "value_changed"),
     FieldChange("spec.type", VStr("ClusterIP"), VStr("ExternalName"), "value_changed"),
     FieldChange("spec.type", VStr("NodePort"), VStr("LoadBalancer"), "value_changed"),
     FieldChange("spec.type", Null, VStr("NodePort"), "item_added"),
     FieldChange("spec.typeName", VStr("ClusterIP"), VStr("NodePort"), "value_changed"),
     FieldChange("spec.clusterIP", VStr("10.0.0.1"), VStr("10.0.0.2"), "value_changed"),
     FieldChange("spec.resources.requests.storage", VStr("10Gi"), VStr("20Gi"), "value_changed"),
     FieldChange("spec.storageClassName", VStr("fast"), VStr("slow"), "value_changed"),
     FieldChange("metadata.labels.storage-requests", VStr("a"), VStr("b"), "value_changed"),
     FieldChange("spec.selector.matchLabels.app", VStr("a"), VStr("b"), "value_changed"),
     FieldChange("spec.versions[0].name", VStr("v1"), VStr("v2"), "value_changed"),
     FieldChange("rules[0].verbs[1]", Null, VStr("delete"), "item_added")}

RiskInputs ==
    {[resource_key |-> "v1/" \o kind \o "/default/x", kind |-> kind,
      name |-> "x", namespace |-> "default", status |-> status,
      changes |-> changes] :
        kind \in RiskKinds, status \in {"added", "removed", "changed"},
        changes \in SeqsUpTo(RiskFieldChanges, MaxChanges)}

InitRisk ==
    /\ pc = "assess_change"
    /\ risk_change \in RiskInputs
    /\ risk_annotations = <<>>
    /\ PipelineIdle /\ SemIdle /\ PathIdle /\ NormIdle /\ DiffIdle
    /\ OwnIdle /\ ParseIdle /\ ApplyIdle /\ FrameIdle

AssessRiskOfChange ==
    /\ pc = "assess_change"
    /\ risk_annotations' = assess_risk(<<risk_change>>)[1][2]
    /\ pc' = "assess_change_done"
    /\ UNCHANGED <<risk_change, pipeline_vars, sem_vars, path_vars, norm_vars,
                   diff_vars,
                   own_vars, parse_vars, apply_vars, frame_vars>>

NextRisk == AssessRiskOfChange

SpecRisk == InitRisk /\ [][NextRisk]_vars

-----------------------------------------------------------------------------
(* The diff command: pair, diff, assess, count                             *)

\* most resources in one snapshot
MaxRes == 2

WebV1 ==
    VMap(<<E("apiVersion", VStr("v1")), E("kind", VStr("Service")),
           E("metadata", VMap(<<E("name", VStr("web")),
                                E("resourceVersion", VStr("1"))>>)),
           E("spec", VMap(<<E("type", VStr("ClusterIP"))>>))>>)

\* WebV1 with another resourceVersion and its keys in another order
WebV1Reapplied ==
    VMap(<<E("kind", VStr("Service")), E("apiVersion", VStr("v1")),
           E("spec", VMap(<<E("type", VStr("ClusterIP"))>>)),
           E("metadata", VMap(<<E("resourceVersion", VStr("2")),
                                E("name", VStr("web"))>>))>>)

WebV2 ==
    VMap(<<E("apiVersion", VStr("v1")), E("kind", VStr("Service")),
           E("metadata", VMap(<<E("name", VStr("web")),
                                E("resourceVersion", VStr("1"))>>)),
           E("spec", VMap(<<E("type", VStr("LoadBalancer"))>>))>>)

CfgV1 ==
    VMap(<<E("apiVersion", VStr("v1")), E("kind", VStr("ConfigMap")),
           E("metadata", VMap(<<E("name", VStr("cfg"))>>)),
           E("data", VMap(<<E("level", VStr("info"))>>))>>)

\* CfgV1 with its keys in another order
CfgV1Reordered ==
    VMap(<<E("data", VMap(<<E("level", VStr("info"))>>)),
           E("metadata", VMap(<<E("name", VStr("cfg"))>>)),
           E("kind", VStr("ConfigMap")), E("apiVersion", VStr("v1"))>>)

DataClaim ==
    VMap(<<E("apiVersion", VStr("v1")), E("kind", VStr("PersistentVolumeClaim")),
           E("metadata", VMap(<<E("name", VStr("data"))>>)),
           E("spec", VMap(<<E("storageClassName", VStr("fast"))>>))>>)

ResourceUniverse ==
    {ResourceOf(b) : b \in {WebV1, WebV1Reapplied, WebV2, CfgV1, CfgV1Reordered,
                            DataClaim}}

Init ==
    /\ pc = "pair_resources"
    /\ live_resources \in SeqsUpTo(ResourceUniverse, MaxRes)
    /\ upgrade_resources \in SeqsUpTo(ResourceUniverse, MaxRes)
    /\ pairs = <<>>
    /\ change_records = <<>>
    /\ risk_results = <<>>
    /\ total_unchanged = 0
    /\ SemIdle /\ PathIdle /\ NormIdle /\ DiffIdle /\ RiskIdle
    /\ OwnIdle /\ ParseIdle /\ ApplyIdle /\ FrameIdle

\* cli.diff step 4
PairResources ==
    /\ pc = "pair_resources"
    /\ pairs' = pair_resources(live_resources, upgrade_resources)
    /\ pc' = "diff_all"
    /\ UNCHANGED <<live_resources, upgrade_resources, change_records,
                   risk_results, total_unchanged, sem_vars, path_vars,
                   norm_vars, diff_vars, risk_vars,
                   own_vars, parse_vars, apply_vars, frame_vars>>

\* cli.diff steps 5-6, noise filtering enabled and no extra ignore paths
DiffAll ==
    /\ pc = "diff_all"
    /\ change_records' = diff_all(pairs, FALSE, <<>>)
    /\ pc' = "assess_risk"
    /\ UNCHANGED <<live_resources, upgrade_resources, pairs, risk_results,
                   total_unchanged, sem_vars, path_vars, norm_vars, diff_vars,
                   risk_vars,
                   own_vars, parse_vars, apply_vars, frame_vars>>

\* cli.diff step 7
AssessRisk ==
    /\ pc = "assess_risk"
    /\ risk_results' = assess_risk(change_records)
    /\ pc' = "count_unchanged"
    /\ UNCHANGED <<live_resources, upgrade_resources, pairs, change_records,
                   total_unchanged, sem_vars, path_vars, norm_vars, diff_vars,
                   risk_vars,
                   own_vars, parse_vars, apply_vars, frame_vars>>

\* cli.diff: the unchanged count handed to the renderer
CountUnchanged ==
    /\ pc = "count_unchanged"
    /\ total_unchanged' = CountUnchangedPairs(pairs)
    /\ pc' = "done"
    /\ UNCHANGED <<live_resources, upgrade_resources, pairs, change_records,
                   risk_results, sem_vars, path_vars, norm_vars, diff_vars,
                   risk_vars,
                   own_vars, parse_vars, apply_vars, frame_vars>>

Next == PairResources \/ DiffAll \/ AssessRisk \/ CountUnchanged

Spec == Init /\ [][Next]_vars

-----------------------------------------------------------------------------
(* detect_ownership applied to one resource                                *)

\* the sequences that keep, in order, some of the entries of s
RECURSIVE SubSeqsOf(_)
SubSeqsOf(s) ==
    IF s = <<>> THEN {<<>>}
    ELSE LET rest == SubSeqsOf(SubSeq(s, 2, Len(s)))
         IN rest \cup {<<s[1]>> \o r : r \in rest}

ManagedByLabels ==
    {<<>>} \cup {<<E("app.kubernetes.io/managed-by", v)>> :
                    v \in {VStr("Helm"), VStr("tiller"), VInt(1)}}

OwnLabels ==
    {Null} \cup
    {VMap(m \o rest) :
        m \in ManagedByLabels,
        rest \in SubSeqsOf(<<E("app.kubernetes.io/instance", VStr("shop")),
                             E("argocd.argoproj.io/instance", VStr("shop-app")),
                             E("kustomize.toolkit.fluxcd.io/name", VStr("apps"))>>)}

ReleaseAnnotations ==
    {<<>>} \cup {<<E("meta.helm.sh/release-name", v)>> : v \in {VStr("shop-rel"), VStr("")}}

OwnAnnotations ==
    {Null} \cup
    {VMap(m \o rest) :
        m \in ReleaseAnnotations,
        rest \in SubSeqsOf(<<E("argocd.argoproj.io/managed-by", VStr("argo")),
                             E("fluxcd.io/sync-checksum", VStr("abc"))>>)}

\* metadata is a mapping in every Resource parse_multi_doc returns; labels
\* and annotations may be null (a key written without a value)
OwnMetadata ==
    {VMap(<<E("name", VStr("web"))>>)}
    \cup {VMap(<<E("name", VStr("web")), E("labels", l)>>) : l \in OwnLabels}
    \cup {VMap(<<E("name", VStr("web")), E("annotations", a)>>) : a \in OwnAnnotations}
    \cup {VMap(<<E("name", VStr("web")), E("labels", l), E("annotations", a)>>) :
            l \in OwnLabels, a \in OwnAnnotations}

OwnBody(metadata) ==
    VMap(<<E("apiVersion", VStr("v1")), E("kind", VStr("Service")),
           E("metadata", metadata)>>)

OwnInputs ==
    {Resource("v1", "Service", "default", "web", OwnBody(m)) : m \in OwnMetadata}
    \cup {Resource("v1", "Service", "default", "",
                   VMap(<<E("apiVersion", VStr("v1")), E("kind", VStr("Service"))>>))}

InitOwn ==
    /\ pc = "detect_ownership"
    /\ own_resource \in OwnInputs
    /\ own_info = None
    /\ PipelineIdle /\ SemIdle /\ PathIdle /\ NormIdle /\ DiffIdle /\ RiskIdle
    /\ ParseIdle /\ ApplyIdle /\ FrameIdle

DetectOwnership ==
    /\ pc = "detect_ownership"
    /\ own_info' = detect_ownership(own_resource)
    /\ pc' = "detect_ownership_done"
    /\ UNCHANGED <<own_resource, pipeline_vars, sem_vars, path_vars, norm_vars,
                   diff_vars, risk_vars, parse_vars, apply_vars, frame_vars>>

NextOwn == DetectOwnership

SpecOwn == InitOwn /\ [][NextOwn]_vars

-----------------------------------------------------------------------------
(* parse_multi_doc applied to a text                                       *)

MaxLines == 3

YamlLines ==
    {"---", "--- ", "", "# Source: shop/templates/service.yaml",
     "{apiVersion: v1, kind: Service, metadata: {name: web, namespace: prod}}",
     "{apiVersion: v1, kind: ConfigMap}",
     "{apiVersion: v1, kind: Secret, metadata: null}",
     "{kind: Service, metadata: {name: web}}",
     "NOTES", "{a: [}"}

InitParse ==
    /\ pc = "parse_multi_doc"
    /\ yaml_text \in SeqsUpTo(YamlLines, MaxLines)
    /\ parse_result = None
    /\ PipelineIdle /\ SemIdle /\ PathIdle /\ NormIdle /\ DiffIdle /\ RiskIdle
    /\ OwnIdle /\ ApplyIdle /\ FrameIdle

ParseMultiDoc ==
    /\ pc = "parse_multi_doc"
    /\ \E default_namespace \in {"default", "staging"} :
          parse_result' = [default_namespace |-> default_namespace,
                           outcome |-> parse_multi_doc(yaml_text, default_namespace)]
    /\ pc' = "parse_multi_doc_done"
    /\ UNCHANGED <<yaml_text, pipeline_vars, sem_vars, path_vars, norm_vars,
                   diff_vars, risk_vars, own_vars, apply_vars, frame_vars>>

NextParse == ParseMultiDoc

SpecParse == InitParse /\ [][NextParse]_vars

-----------------------------------------------------------------------------
(* _apply_server_side applied to a list of resources                       *)

\* the dry-run answers with the mutated resource, answers with nothing,
\* exits with an error, or does not answer in time
DryRunProcesses ==
    {Process(FALSE, 0,
        <<"{apiVersion: v1, kind: Service, metadata: {name: web, namespace: prod}}">>),
     Process(FALSE, 0, <<>>),
     Process(FALSE, 1, <<>>),
     Process(TRUE, 0, <<>>)}

InitApply ==
    /\ pc = "apply_server_side"
    /\ \E n \in 0..MaxRes :
          /\ apply_resources \in [1..n -> {ResourceOf(WebV1), ResourceOf(CfgV1)}]
          /\ apply_outcomes \in [1..n -> DryRunProcesses]
    /\ apply_results = <<>>
    /\ apply_raised = ""
    /\ PipelineIdle /\ SemIdle /\ PathIdle /\ NormIdle /\ DiffIdle /\ RiskIdle
    /\ OwnIdle /\ ParseIdle /\ FrameIdle

\* one iteration of the loop over resources
ApplyNextResource ==
    /\ pc = "apply_server_side"
    /\ Len(apply_results) < Len(apply_resources)
    /\ LET i == Len(apply_results) + 1
           entry == ApplyOneResource(apply_resources[i], apply_outcomes[i], "default")
       IN IF IsRaised(entry)
          THEN /\ apply_raised' = entry.raised
               /\ pc' = "apply_server_side_done"
               /\ UNCHANGED apply_results
          ELSE /\ apply_results' = Append(apply_results, entry.returned)
               /\ UNCHANGED <<pc, apply_raised>>
    /\ UNCHANGED <<apply_resources, apply_outcomes, pipeline_vars, sem_vars,
                   path_vars, norm_vars, diff_vars, risk_vars, own_vars,
                   parse_vars, frame_vars>>

\* return results
ApplyReturn ==
    /\ pc = "apply_server_side"
    /\ Len(apply_results) = Len(apply_resources)
    /\ pc' = "apply_server_side_done"
    /\ UNCHANGED <<apply_vars, pipeline_vars, sem_vars, path_vars, norm_vars,
                   diff_vars, risk_vars, own_vars, parse_vars, frame_vars>>

NextApply == ApplyNextResource \/ ApplyReturn

SpecApply == InitApply /\ [][NextApply]_vars

-----------------------------------------------------------------------------
(* strip_noise, normalize_body and compute_diff called on the two bodies   *)
(* of a pair, which are objects 1 and 2 of the heap                        *)

\* a Service as the cluster returns it: server-set fields, ports out of order
WebLive ==
    VMap(<<E("status", VMap(<<E("loadBalancer", VMap(<<>>))>>)),
           E("spec", VMap(<<E("type", VStr("ClusterIP")),
                            E("ports", VList(<<VMap(<<E("port", VInt(443))>>),
                                               VMap(<<E("port", VInt(80))>>)>>))>>)),
           E("metadata", VMap(<<E("uid", VStr("u1")), E("name", VStr("web")),
                                E("annotations",
                                    VMap(<<E("meta.helm.sh/release-name", VStr("shop"))>>))>>)),
           E("kind", VStr("Service")), E("apiVersion", VStr("v1"))>>)

FrameBodies == {WebV1, WebV1Reapplied, WebV2, WebLive, CfgV1, CfgV1Reordered}

InitFrame ==
    /\ pc = "call"
    /\ heap \in [1..2 -> FrameBodies]
    /\ heap_before = heap
    /\ PipelineIdle /\ SemIdle /\ PathIdle /\ NormIdle /\ DiffIdle /\ RiskIdle
    /\ OwnIdle /\ ParseIdle /\ ApplyIdle

CallStripNoise ==
    /\ pc = "call"
    /\ \E body \in 1..2 : heap' = strip_noise_call(heap, body, <<>>).heap
    /\ pc' = "strip_noise_done"
    /\ UNCHANGED <<heap_before, pipeline_vars, sem_vars, path_vars, norm_vars,
                   diff_vars, risk_vars, own_vars, parse_vars, apply_vars>>

CallNormalizeBody ==
    /\ pc = "call"
    /\ \E body \in 1..2 : heap' = normalize_body_call(heap, body).heap
    /\ pc' = "normalize_body_done"
    /\ UNCHANGED <<heap_before, pipeline_vars, sem_vars, path_vars, norm_vars,
                   diff_vars, risk_vars, own_vars, parse_vars, apply_vars>>

\* compute_diff on the pair pair_resources builds from the two bodies
CallComputeDiff ==
    /\ pc = "call"
    /\ \E show_all \in BOOLEAN :
          heap' = compute_diff_call(heap,
                      IF PyEq(heap[1], heap[2]) THEN "unchanged" ELSE "changed",
                      1, 2, show_all, <<>>)
    /\ pc' = "compute_diff_done"
    /\ UNCHANGED <<heap_before, pipeline_vars, sem_vars, path_vars, norm_vars,
                   diff_vars, risk_vars, own_vars, parse_vars, apply_vars>>

NextFrame == CallStripNoise \/ CallNormalizeBody \/ CallComputeDiff

SpecFrame == InitFrame /\ [][NextFrame]_vars

-----------------------------------------------------------------------------
(* pair_resources applied to one old and one new resource                  *)

IdentityResources ==
    {Resource(api_version, "Deployment", namespace, name,
        VMap(<<E("apiVersion", VStr(api_version)), E("kind", VStr("Deployment")),
               E("metadata", VMap(<<E("name", VStr(name)),
                                    E("namespace", VStr(namespace))>>))>>)) :
        api_version \in {"v1", "apps/v1"},
        namespace \in {"default", "team", "team/a"},
        name \in {"web", "a/web"}}

InitKey ==
    /\ pc = "pair_identities"
    /\ live_resources \in {<<r>> : r \in IdentityResources}
    /\ upgrade_resources \in {<<r>> : r \in IdentityResources}
    /\ pairs = <<>>
    /\ change_records = <<>>
    /\ risk_results = <<>>
    /\ total_unchanged = 0
    /\ SemIdle /\ PathIdle /\ NormIdle /\ DiffIdle /\ RiskIdle
    /\ OwnIdle /\ ParseIdle /\ ApplyIdle /\ FrameIdle

PairIdentities ==
    /\ pc = "pair_identities"
    /\ pairs' = pair_resources(live_resources, upgrade_resources)
    /\ pc' = "pair_identities_done"
    /\ UNCHANGED <<live_resources, upgrade_resources, change_records,
                   risk_results, total_unchanged, sem_vars, path_vars,
                   norm_vars, diff_vars, risk_vars,
                   own_vars, parse_vars, apply_vars, frame_vars>>

NextKey == PairIdentities

SpecKey == InitKey /\ [][NextKey]_vars

-----------------------------------------------------------------------------
(* The semantic comparator applied to two values, in both argument orders  *)

InitSem ==
    /\ pc = "sem"
    /\ val_a \in SemValues(SemDepth)
    /\ val_b \in SemValues(SemDepth)
    /\ eq_ab = FALSE /\ eq_ba = FALSE
    /\ PipelineIdle /\ PathIdle /\ NormIdle /\ DiffIdle /\ RiskIdle
    /\ OwnIdle /\ ParseIdle /\ ApplyIdle /\ FrameIdle

IsSemanticallyEqual ==
    /\ pc = "sem"
    /\ eq_ab' = is_semantically_equal(val_a, val_b)
    /\ eq_ba' = is_semantically_equal(val_b, val_a)
    /\ pc' = "sem_done"
    /\ UNCHANGED <<val_a, val_b, pipeline_vars, path_vars, norm_vars,
                   diff_vars, risk_vars,
                   own_vars, parse_vars, apply_vars, frame_vars>>

NextSem == IsSemanticallyEqual

SpecSem == InitSem /\ [][NextSem]_vars

-----------------------------------------------------------------------------
(* Claims                                                                  *)

KeysOfSide(rs) == {Resource_key(rs[i]) : i \in 1..Len(rs)}

FirstIndex(rs, k) ==
    CHOOSE i \in 1..Len(rs) :
        Resource_key(rs[i]) = k /\ \A j \in 1..(i - 1) : Resource_key(rs[j]) # k

LastIndex(rs, k) ==
    CHOOSE i \in 1..Len(rs) :
        Resource_key(rs[i]) = k
            /\ \A j \in (i + 1)..Len(rs) : Resource_key(rs[j]) # k

PairKey(p) == IF p.old # None THEN Resource_key(p.old) ELSE Resource_key(p.new)

\* C1: pair_resources returns exactly one ResourcePair per identity key of
\* the union of both sides, old-side keys first in first-seen order, then
\* the new-only keys; a duplicate key is paired with its last occurrence;
\* the status is removed for a key only in old, added for a key only in
\* new, unchanged when both bodies are equal and changed otherwise.
C1_PairResources ==
    pc # "pair_resources" =>
        LET OldKeys == KeysOfSide(live_resources)
            NewKeys == KeysOfSide(upgrade_resources)
        IN /\ {PairKey(pairs[i]) : i \in 1..Len(pairs)} = OldKeys \cup NewKeys
           /\ \A i, j \in 1..Len(pairs) :
                i < j =>
                    LET ki == PairKey(pairs[i])
                        kj == PairKey(pairs[j])
                    IN /\ ki # kj
                       /\ kj \in OldKeys => ki \in OldKeys
                       /\ (ki \in OldKeys /\ kj \in OldKeys) =>
                            FirstIndex(live_resources, ki)
                                < FirstIndex(live_resources, kj)
                       /\ (ki \notin OldKeys /\ kj \notin OldKeys) =>
                            FirstIndex(upgrade_resources, ki)
                                < FirstIndex(upgrade_resources, kj)
           /\ \A i \in 1..Len(pairs) :
                LET k == PairKey(pairs[i])
                    p == pairs[i]
                IN /\ p.old = IF k \in OldKeys
                               THEN live_resources[LastIndex(live_resources, k)]
                               ELSE None
                   /\ p.new = IF k \in NewKeys
                               THEN upgrade_resources[LastIndex(upgrade_resources, k)]
                               ELSE None
                   /\ p.status =
                        (IF k \notin NewKeys THEN "removed"
                         ELSE IF k \notin OldKeys THEN "added"
                         ELSE IF PyEq(p.old.body, p.new.body) THEN "unchanged"
                         ELSE "changed")

\* A pairing of an old side that holds one key twice with different bodies
\* against a new side that holds that key and a key of its own.
C1_Witness ==
    /\ pc # "pair_resources"
    /\ \E i, j \in 1..Len(live_resources) :
          /\ i < j
          /\ Resource_key(live_resources[i]) = Resource_key(live_resources[j])
          /\ ~PyEq(live_resources[i].body, live_resources[j].body)
    /\ \E i \in 1..Len(pairs) : pairs[i].status = "added"
    /\ \E i \in 1..Len(pairs) : pairs[i].status \in {"changed", "unchanged"}

\* the two snapshots hold the same resources, key for key, and the bodies
\* of a key differ at most in metadata.resourceVersion and in key order
SameExceptResourceVersion ==
    /\ Len(live_resources) = Len(upgrade_resources)
    /\ Cardinality(KeysOfSide(live_resources)) = Len(live_resources)
    /\ \A i \in 1..Len(live_resources) :
          /\ Resource_key(live_resources[i]) = Resource_key(upgrade_resources[i])
          /\ PyEq(_remove_path(live_resources[i].body, "metadata.resourceVersion"),
                  _remove_path(upgrade_resources[i].body, "metadata.resourceVersion"))

\* C2: for snapshots identical except for metadata.resourceVersion and key
\* order, the run yields zero ChangeRecords and an unchanged count equal to
\* the number of resources.
C2_ReappliedSnapshotAllUnchanged ==
    (pc = "done" /\ SameExceptResourceVersion)
        => /\ change_records = <<>>
           /\ total_unchanged = Len(live_resources)

\* C8: assess_risk attaches to a ChangeRecord the outputs of all rules in
\* declaration order (immutable-field, service-type, storage, deletion,
\* schema/versioning, access-control), nothing dropped, merged or reordered.
C8_RulesConcatenated ==
    pc = "assess_change_done" =>
        risk_annotations =
            check_immutable_fields(risk_change)
            \o check_service_type_change(risk_change)
            \o check_pvc_changes(risk_change)
            \o check_resource_deletion(risk_change)
            \o check_crd_changes(risk_change)
            \o check_rbac_escalation(risk_change)

\* A removed record with a change to an immutable field: it carries the
\* immutable-field annotation first and the deletion annotation after it.
C8_Witness ==
    /\ pc = "assess_change_done"
    /\ risk_change.status = "removed"
    /\ \E i, j \in 1..Len(risk_annotations) :
          /\ i < j
          /\ risk_annotations[i].rule = "immutable_field"
          /\ risk_annotations[j].rule = "resource_deleted"

IsServiceTypeAnnotation(a) == a.rule = "service_type_change"
IsSpecTypeChange(fc) == fc.path = "spec.type"

\* C9: for kind Service each FieldChange at spec.type yields exactly one
\* service_type_change annotation, danger exactly when the old value is
\* ClusterIP and the new value NodePort or LoadBalancer, warning otherwise;
\* other kinds and other paths yield no such annotation.
C9_ServiceTypeRule ==
    pc = "assess_change_done" =>
        LET anns == SelectSeq(risk_annotations, IsServiceTypeAnnotation)
            fcs == SelectSeq(risk_change.changes, IsSpecTypeChange)
        IN IF risk_change.kind = "Service"
           THEN /\ Len(anns) = Len(fcs)
                /\ \A i \in 1..Len(anns) :
                      /\ anns[i].path = "spec.type"
                      /\ anns[i].level =
                            (IF /\ fcs[i].old_value = VStr("ClusterIP")
                                /\ fcs[i].new_value \in
                                      {VStr("NodePort"), VStr("LoadBalancer")}
                             THEN DANGER ELSE WARNING)
           ELSE anns = <<>>

\* A Service record with two spec.type changes, one annotated danger and
\* one warning.
C9_Witness ==
    /\ pc = "assess_change_done"
    /\ risk_change.kind = "Service"
    /\ \E i, j \in 1..Len(risk_annotations) :
          /\ risk_annotations[i].rule = "service_type_change"
          /\ risk_annotations[j].rule = "service_type_change"
          /\ risk_annotations[i].level = DANGER
          /\ risk_annotations[j].level = WARNING

IsStorageAnnotation(a) == a.rule = "pvc_storage_change"
IsStorageClassAnnotation(a) == a.rule = "pvc_storage_class_change"
StorageRequestPath == "spec.resources.requests.storage"
IsUnderStorageRequest(fc) ==
    \/ fc.path = StorageRequestPath
    \/ StartsWith(fc.path, StorageRequestPath \o ".")
    \/ StartsWith(fc.path, StorageRequestPath \o "[")
IsStorageClassChange(fc) == fc.path = "spec.storageClassName"
PathsOf(items) == [i \in 1..Len(items) |-> items[i].path]

\* C10: for kind PersistentVolumeClaim the storage rule emits a
\* pvc_storage_change warning exactly for the changes under
\* spec.resources.requests.storage, a pvc_storage_class_change danger
\* exactly for the changes at spec.storageClassName, and nothing for any
\* other path; a record whose only change is the storage request from 10Gi
\* to 20Gi carries exactly one annotation, a warning.
C10_StorageRule ==
    (pc = "assess_change_done" /\ risk_change.kind = "PersistentVolumeClaim")
        => /\ PathsOf(SelectSeq(risk_annotations, IsStorageAnnotation))
                = PathsOf(SelectSeq(risk_change.changes, IsUnderStorageRequest))
           /\ PathsOf(SelectSeq(risk_annotations, IsStorageClassAnnotation))
                = PathsOf(SelectSeq(risk_change.changes, IsStorageClassChange))
           /\ \A i \in 1..Len(risk_annotations) :
                /\ risk_annotations[i].rule = "pvc_storage_change"
                    => risk_annotations[i].level = WARNING
                /\ risk_annotations[i].rule = "pvc_storage_class_change"
                    => risk_annotations[i].level = DANGER
           /\ (/\ risk_change.status = "changed"
               /\ risk_change.changes =
                    <<FieldChange(StorageRequestPath, VStr("10Gi"),
                                  VStr("20Gi"), "value_changed")>>)
                => /\ Len(risk_annotations) = 1
                   /\ risk_annotations[1].level = WARNING
                   /\ risk_annotations[1].rule = "pvc_storage_change"

\* the results of assess_risk whose ChangeRecord has resource key k
ResultsFor(k) ==
    SelectSeq(risk_results, LAMBDA res : res[1].resource_key = k)

\* C11: every resource present only in the old snapshot, of any kind, comes
\* out of pair_resources, diff_all and assess_risk as one ChangeRecord with
\* status removed and no FieldChange, carrying exactly one RiskAnnotation:
\* warning, rule resource_deleted, empty path.
C11_RemovedResourceWarned ==
    pc \in {"count_unchanged", "done"} =>
        \A i \in 1..Len(live_resources) :
            LET r == live_resources[i]
                k == Resource_key(r)
            IN k \notin KeysOfSide(upgrade_resources) =>
                /\ Len(ResultsFor(k)) = 1
                /\ LET change == ResultsFor(k)[1][1]
                       annotations == ResultsFor(k)[1][2]
                   IN /\ change.status = "removed"
                      /\ change.kind = r.kind
                      /\ change.name = r.name
                      /\ change.changes = <<>>
                      /\ Len(annotations) = 1
                      /\ annotations[1].level = WARNING
                      /\ annotations[1].rule = "resource_deleted"
                      /\ annotations[1].path = ""

\* A run in which two resources of different kinds, one of them a
\* PersistentVolumeClaim, are present only in the old snapshot.
C11_Witness ==
    /\ pc = "done"
    /\ \E i, j \in 1..Len(live_resources) :
          /\ live_resources[i].kind = "PersistentVolumeClaim"
          /\ live_resources[j].kind # "PersistentVolumeClaim"
          /\ Resource_key(live_resources[i]) \notin KeysOfSide(upgrade_resources)
          /\ Resource_key(live_resources[j]) \notin KeysOfSide(upgrade_resources)
    /\ Len(risk_results) >= 2

\* the labels or annotations mapping of a resource; empty when the body
\* has none
MetadataMapping(r, field) ==
    LET metadata == GetOr(r.body, "metadata", Null)
        m == IF metadata.t = "map" THEN GetOr(metadata, field, Null) ELSE Null
    IN IF m.t = "map" THEN m ELSE VMap(<<>>)

\* C12: detect_ownership returns exactly one manager for every resource, in
\* fixed priority order: helm when the managed-by label names helm or the
\* release-name annotation is present (release from the annotation, else
\* from the instance label); otherwise argocd when its managed-by
\* annotation or instance label is present (with the application name);
\* otherwise flux when a label or annotation key contains fluxcd.io;
\* otherwise unknown.
C12_OwnershipByPriority ==
    pc = "detect_ownership_done" =>
        LET labels == MetadataMapping(own_resource, "labels")
            annotations == MetadataMapping(own_resource, "annotations")
            managed_by == GetOr(labels, "app.kubernetes.io/managed-by", VStr(""))
            helm == \/ (managed_by.t = "str" /\ Lower(managed_by.v) = "helm")
                    \/ HasKey(annotations, "meta.helm.sh/release-name")
            argocd == \/ HasKey(annotations, "argocd.argoproj.io/managed-by")
                      \/ HasKey(labels, "argocd.argoproj.io/instance")
            flux == \E k \in Keys(labels) \cup Keys(annotations) :
                        Contains(k, "fluxcd.io")
        IN /\ ~IsRaised(own_info)
           /\ own_info.manager =
                (IF helm THEN "helm" ELSE IF argocd THEN "argocd"
                 ELSE IF flux THEN "flux" ELSE "unknown")
           /\ helm => own_info.release =
                (IF HasKey(annotations, "meta.helm.sh/release-name")
                 THEN Get(annotations, "meta.helm.sh/release-name")
                 ELSE GetOrNull(labels, "app.kubernetes.io/instance"))
           /\ (~helm /\ argocd) => own_info.app =
                (IF HasKey(annotations, "argocd.argoproj.io/managed-by")
                 THEN Get(annotations, "argocd.argoproj.io/managed-by")
                 ELSE Get(labels, "argocd.argoproj.io/instance"))

\* a document the claim lets through: it parses to a mapping that holds
\* apiVersion and kind and whose metadata, when present, is a mapping
IsResourceDoc(raw_doc) ==
    LET body == yaml_safe_load(raw_doc)
    IN /\ ~IsBlankDoc(raw_doc)
       /\ ~IsRaised(body)
       /\ body.t = "map"
       /\ HasKey(body, "apiVersion") /\ HasKey(body, "kind")
       /\ GetOr(body, "metadata", VMap(<<>>)).t = "map"

\* C13: parse_multi_doc never fails: a document that does not parse, is not
\* a mapping or lacks the identity fields (one whose metadata is null
\* included) is skipped, and every other document is returned as a
\* Resource, in document order, with namespace defaulted to the supplied
\* default and name to the empty string.
C13_ParseNeverFails ==
    pc = "parse_multi_doc_done" =>
        LET docs == SelectSeq(_split_raw_docs(yaml_text), IsResourceDoc)
        IN /\ ~IsRaised(parse_result.outcome)
           /\ Len(parse_result.outcome.returned) = Len(docs)
           /\ \A i \in 1..Len(docs) :
                LET resources == parse_result.outcome.returned
                    body == yaml_safe_load(docs[i])
                    metadata == GetOr(body, "metadata", VMap(<<>>))
                IN /\ resources[i].body = body
                   /\ resources[i].api_version = Get(body, "apiVersion").v
                   /\ resources[i].kind = Get(body, "kind").v
                   /\ resources[i].namespace =
                        (IF HasKey(metadata, "namespace")
                         THEN Get(metadata, "namespace").v
                         ELSE parse_result.default_namespace)
                   /\ resources[i].name =
                        (IF HasKey(metadata, "name") THEN Get(metadata, "name").v
                         ELSE "")

\* the external invocation failed: no answer in time, or an error exit
DryRunFailed(proc) == proc.timed_out \/ proc.returncode # 0

\* C14: in server-side mode a failure of the dry-run for one resource, of
\* any kind, a timeout included, never aborts the run: _apply_server_side
\* returns one entry per input resource, in input order, the entry of a
\* failed resource being the original resource.
C14_DryRunFailureFallsBack ==
    pc = "apply_server_side_done" =>
        /\ apply_raised = ""
        /\ Len(apply_results) = Len(apply_resources)
        /\ \A i \in 1..Len(apply_resources) :
              DryRunFailed(apply_outcomes[i]) => apply_results[i] = apply_resources[i]

\* C15: strip_noise, normalize_body and compute_diff never mutate their
\* inputs: after any call the bodies passed in are what they were before,
\* at every level, key order and list order included.
C15_InputsNotMutated ==
    pc \in {"strip_noise_done", "normalize_body_done", "compute_diff_done"} =>
        /\ heap[1] = heap_before[1]
        /\ heap[2] = heap_before[2]

\* A call that changed the object it worked on: the heap holds a new
\* object that differs from both bodies of the pair.
C15_Witness ==
    /\ pc \in {"strip_noise_done", "compute_diff_done"}
    /\ \E ref \in 3..Len(heap) : heap[ref] # heap[1] /\ heap[ref] # heap[2]

IdentityOf(r) == <<r.api_version, r.kind, r.namespace, r.name>>

\* C16: the identity key is injective on the identity tuple: two resources
\* whose (API version, kind, namespace, name) differ have different keys,
\* '/' in the fields included, so pair_resources never pairs them.
C16_KeyInjective ==
    pc = "pair_identities_done" =>
        LET old == live_resources[1]
            new == upgrade_resources[1]
        IN IdentityOf(old) # IdentityOf(new) =>
              /\ Resource_key(old) # Resource_key(new)
              /\ Len(pairs) = 2
              /\ pairs[1] = ResourcePair(old, None, "removed")
              /\ pairs[2] = ResourcePair(None, new, "added")

\* C17: every FieldChange of a ChangeRecord returned by compute_diff is at a
\* path whose old and new values are not semantically equal: next to a
\* real difference, a difference of representation only ("80" vs 80,
\* "true" vs true, null vs absent) is not reported.
C17_NoRepresentationOnlyChange ==
    (pc = "compute_diff_done" /\ diff_record # None) =>
        \A i \in 1..Len(diff_record.changes) :
            ~is_semantically_equal(diff_record.changes[i].old_value,
                                   diff_record.changes[i].new_value)

\* C18: with noise filtering enabled, a changed pair whose bodies differ
\* only in fields matched by the default noise paths yields no
\* ChangeRecord, also when the noise fields are the only entries of their
\* parent mapping on one side and the parent is absent on the other.
C18_NoiseOnlyPairDropped ==
    (pc = "compute_diff_done" /\ diff_pair.status = "changed") =>
        diff_record = None

\* C5: is_semantically_equal is symmetric: for all bodies a and b,
\* is_semantically_equal(a, b) equals is_semantically_equal(b, a).
C5_Symmetric == pc = "sem_done" => eq_ab = eq_ba

\* A comparison that came out equal for two mappings with different key
\* sets (one side holds a null the other side leaves out).
C5_Witness ==
    /\ pc = "sem_done"
    /\ val_a.t = "map" /\ val_b.t = "map"
    /\ Keys(val_a) # Keys(val_b)
    /\ Keys(val_a) # {} /\ Keys(val_b) # {}
    /\ eq_ab /\ eq_ba

\* The scalar pairs the comparator is documented to accept.
ScalarEqualAsDocumented(a, b) ==
    \/ PyEq(a, b)
    \/ \E s \in {a, b}, n \in {a, b} :
          /\ s.t = "str" /\ n.t \in {"int", "float"}
          /\ _coerce_numeric(s).some
          /\ _coerce_numeric(s).n = NumOf(n)
    \/ \E s \in {a, b}, x \in {a, b} :
          /\ s.t = "str" /\ x.t = "bool"
          /\ \/ x.v /\ Lower(s.v) \in {"true", "yes"}
             \/ ~x.v /\ Lower(s.v) \in {"false", "no"}

\* C6: two scalars are semantically equal only when literally equal, or a
\* string and the number it parses to, or a string and the boolean its
\* lower-cased text names; every other scalar pair, two unequal strings in
\* particular, is not equal.
C6_ScalarEquality ==
    (pc = "sem_done" /\ IsScalar(val_a) /\ IsScalar(val_b))
        => (eq_ab <=> ScalarEqualAsDocumented(val_a, val_b))

\* C4: every FieldChange path is the keys and indices leading to the node,
\* keys joined with "." and each list index appended as "[i]" without a
\* dot, for every key string and every nesting of mappings and lists.
C4_PathFormat == pc = "path_done" => dot_path = DotPathOf(path_segs)

\* The list normalize_body sorts in a body of the model, before and after.
ConfiguredList(body) ==
    IF Get(body, "kind") = VStr("Service")
    THEN Get(Get(body, "spec"), "ports")
    ELSE Get(Get(Get(Get(Get(body, "spec"), "template"), "spec"),
                 "containers").v[1], "env")

ConfiguredSortKey(body) ==
    IF Get(body, "kind") = VStr("Service") THEN "port" ELSE "name"

\* C7: normalize_body is idempotent: normalizing a normalized body changes
\* neither content, nor key order, nor list order, also for configured
\* lists with non-mapping elements, elements without the sort field, or
\* sort-field values that cannot be ordered.
C7_NormalizeIdempotent == pc = "norm_done" => norm_twice = norm_once

\* A first normalization that reordered a configured list holding two
\* elements with the same sort key, and a second one that has run.
C7_Witness ==
    /\ pc = "norm_done"
    /\ ConfiguredList(body_in).t = "list"
    /\ ConfiguredList(norm_once) # ConfiguredList(_sort_keys_recursive(body_in))
    /\ \E i, j \in 1..Len(ConfiguredList(body_in).v) :
          /\ i # j
          /\ ConfiguredList(body_in).v[i] # ConfiguredList(body_in).v[j]
          /\ SortKeyOf(ConfiguredList(body_in).v[i], ConfiguredSortKey(body_in))
                = SortKeyOf(ConfiguredList(body_in).v[j], ConfiguredSortKey(body_in))

\* A normalization that met keys it cannot order and left the list as it was.
C7_WitnessUnorderable ==
    /\ pc = "norm_done"
    /\ ConfiguredList(body_in).t = "list"
    /\ SortRaises(ConfiguredList(body_in).v, ConfiguredSortKey(body_in))
    /\ norm_once # body_in

\* whether x has a node at a path
RECURSIVE HasPath(_, _)
HasPath(x, segs) ==
    IF segs = <<>> THEN TRUE
    ELSE IF segs[1].t = "str"
    THEN x.t = "map" /\ HasKey(x, segs[1].v)
            /\ HasPath(Get(x, segs[1].v), Tail(segs))
    ELSE x.t = "list" /\ segs[1].v < Len(x.v)
            /\ HasPath(x.v[segs[1].v + 1], Tail(segs))

\* a path as a pattern of the sort table: keys joined by ".", "*" for an index
RECURSIVE PatternOf(_)
PatternOf(segs) ==
    IF segs = <<>> THEN ""
    ELSE LET last == segs[Len(segs)]
             front == PatternOf(SubSeq(segs, 1, Len(segs) - 1))
         IN (IF Len(segs) > 1 THEN front \o "." ELSE front)
                \o (IF last.t = "str" THEN last.v ELSE "*")

\* the sort fields configured for the list at a path (empty: not sorted)
SortFieldsAt(segs) ==
    {UNORDERED_LIST_SORT_KEYS[i][2] : i \in
        {j \in 1..Len(UNORDERED_LIST_SORT_KEYS) :
            UNORDERED_LIST_SORT_KEYS[j][1] = PatternOf(segs)}}

\* the 0-based place of element i (0-based) of a list once the list is
\* ordered by a sort field, equal keys keeping their order
PlaceAfterSort(items, i, sort_key) ==
    Cardinality({j \in 1..Len(items) :
        \/ KeyLess(SortKeyOf(items[j], sort_key), SortKeyOf(items[i + 1], sort_key))
        \/ /\ ~KeyLess(SortKeyOf(items[i + 1], sort_key), SortKeyOf(items[j], sort_key))
           /\ j < i + 1})

\* where the node at a path of body stands once body is normalized
RECURSIVE NormalizedPathFrom(_, _, _)
NormalizedPathFrom(body, segs, n) ==
    IF n > Len(segs) THEN segs
    ELSE LET prefix == SubSeq(segs, 1, n - 1)
             list == ValueAt(body, prefix)
             fields == SortFieldsAt(prefix)
         IN IF segs[n].t = "int" /\ fields # {}
               /\ ~SortRaises(list.v, CHOOSE f \in fields : TRUE)
            THEN NormalizedPathFrom(body,
                    [segs EXCEPT ![n] = VInt(PlaceAfterSort(list.v, segs[n].v,
                                             CHOOSE f \in fields : TRUE))],
                    n + 1)
            ELSE NormalizedPathFrom(body, segs, n + 1)

NormalizedPath(body, segs) == NormalizedPathFrom(body, segs, 1)

\* the leaf is the sort field of an element of a list the normalizer sorts
IsSortFieldLeaf(segs) ==
    /\ Len(segs) >= 3
    /\ segs[Len(segs)].t = "str"
    /\ segs[Len(segs) - 1].t = "int"
    /\ segs[Len(segs)].v \in SortFieldsAt(SubSeq(segs, 1, Len(segs) - 2))

OldLeaf == ValueAt(diff_pair.old.body, diff_leaf)
NewLeaf == ValueAt(diff_pair.new.body, diff_leaf)

\* C3 as stated: a changed pair whose bodies differ at exactly one leaf
\* path yields a ChangeRecord with exactly one FieldChange, at that leaf
\* path and of type value_changed, also inside a list the normalizer sorts.
C3_OneLeafValueChanged ==
    (pc = "compute_diff_done" /\ diff_pair.status = "changed")
        => /\ diff_record # None
           /\ Len(diff_record.changes) = 1
           /\ diff_record.changes[1].path = DotPathOf(diff_leaf)
           /\ diff_record.changes[1].change_type = "value_changed"

\* C3 amended: a changed pair whose bodies differ at exactly one leaf,
\* where the two leaf values are not semantically equal, noise stripping
\* keeps the leaf, and the leaf is not the sort field of an element of a
\* sorted list, yields a ChangeRecord with exactly one FieldChange: at the
\* converted path of the leaf's place in the normalized body, carrying both
\* leaf values, value_changed when the two values have the same type and
\* type_changed when they do not.
C3_OneLeafOneChange ==
    (/\ pc = "compute_diff_done"
     /\ diff_pair.status = "changed"
     /\ HasPath(strip_noise(diff_pair.old.body, <<>>), diff_leaf)
     /\ ~is_semantically_equal(OldLeaf, NewLeaf)
     /\ ~IsSortFieldLeaf(diff_leaf))
        => /\ diff_record # None
           /\ diff_record.status = "changed"
           /\ Len(diff_record.changes) = 1
           /\ diff_record.changes[1].path =
                _deepdiff_path_to_dot(DeepDiffPath(
                    NormalizedPath(diff_pair.old.body, diff_leaf)))
           /\ diff_record.changes[1].old_value = OldLeaf
           /\ diff_record.changes[1].new_value = NewLeaf
           /\ diff_record.changes[1].change_type =
                (IF OldLeaf.t = NewLeaf.t THEN "value_changed"
                 ELSE "type_changed")

\* One value changed inside a configured list that the normalizer
\* reordered: the single FieldChange is reported at the element's new index.
C3_Witness ==
    /\ pc = "compute_diff_done"
    /\ diff_pair.status = "changed"
    /\ ~IsSortFieldLeaf(diff_leaf)
    /\ NormalizedPath(diff_pair.old.body, diff_leaf) # diff_leaf
    /\ OldLeaf.t = NewLeaf.t
    /\ diff_record # None
    /\ Len(diff_record.changes) = 1
    /\ diff_record.changes[1].change_type = "value_changed"

====
